---- MODULE Spec2Model ----
(***************************************************************************)
(* Investment portfolio tracker: FIFO trade ledger, price cache / batch    *)
(* price lookup, daily snapshot store and DTD/MTD/YTD attribution.         *)
(*                                                                         *)
(* Money is modelled in exact rational arithmetic (the code uses binary    *)
(* floats); a rational is a record [num, den] in lowest terms, den > 0.    *)
(***************************************************************************)
EXTENDS Integers, Sequences, FiniteSets, TLC

VARIABLES
    trades,           \* the trades collection, in trade_date order
    daily_snapshots,  \* the daily_snapshots collection, in insertion order
    completed,        \* (portfolio, date) pairs snapshotted by a call that completed
                      \* since a trade was last added or a snapshot last removed
    next_id,          \* the next _id the document store hands out
    today,            \* date.today(), a proleptic Gregorian ordinal
    now,              \* datetime.now(), in seconds
    cache,            \* MarketDataService.cache
    next_round,       \* number of provider fetch rounds started so far
    req,              \* the requests in flight, one coroutine per client
    scheduled_tasks,  \* SimpleScheduler.scheduled_tasks, task id -> task
    task_counter      \* SimpleScheduler.task_counter

vars == <<trades, daily_snapshots, completed, next_id, today, now, cache, next_round, req,
          scheduled_tasks, task_counter>>

None == [none |-> TRUE]

----------------------------------------------------------------------------
(* Exact rationals *)

Abs(x) == IF x < 0 THEN -x ELSE x

RECURSIVE GCD(_, _)
GCD(a, b) == IF b = 0 THEN a ELSE GCD(b, a % b)

Rat(n, d) ==
    LET s == IF d < 0 THEN -1 ELSE 1
        g == GCD(Abs(n), Abs(d))
    IN  [num |-> (s * n) \div g, den |-> (s * d) \div g]

RInt(i) == [num |-> i, den |-> 1]
RZero == RInt(0)
RAdd(a, b) == Rat(a.num * b.den + b.num * a.den, a.den * b.den)
RSub(a, b) == Rat(a.num * b.den - b.num * a.den, a.den * b.den)
RMul(a, b) == Rat(a.num * b.num, a.den * b.den)
RDiv(a, b) == Rat(a.num * b.den, a.den * b.num)
RLt(a, b) == a.num * b.den < b.num * a.den
RLe(a, b) == a.num * b.den <= b.num * a.den

\* round(x, 2): the nearest multiple of 1/100, a tie going to the even one
Round2(x) ==
    LET n == x.num * 100
        q == n \div x.den
        r == n - q * x.den
        up == \/ 2 * r > x.den
              \/ 2 * r = x.den /\ q % 2 = 1
    IN  Rat(IF up THEN q + 1 ELSE q, 100)

----------------------------------------------------------------------------
(* TradeLedger: calculate_fifo_position *)

\* a lot is the tuple (quantity, price_per_share, brokerage_per_share)
Lot(quantity, price_per_share, brokerage_per_share) ==
    <<quantity, price_per_share, brokerage_per_share>>

\* (variant: the newest lot is consumed first)
RECURSIVE MatchLots_newest_first(_, _, _, _)
MatchLots_newest_first(buy_lots, remaining_to_sell, executed_price, realized_pl) ==
    IF remaining_to_sell > 0 /\ buy_lots # <<>>
    THEN LET n == Len(buy_lots)
             lot_quantity == buy_lots[n][1]
             unit_cost == RAdd(buy_lots[n][2], buy_lots[n][3])
             sold == IF lot_quantity <= remaining_to_sell THEN lot_quantity ELSE remaining_to_sell
             gain == RSub(RMul(RInt(sold), executed_price), RMul(RInt(sold), unit_cost))
             rest == IF lot_quantity <= remaining_to_sell
                     THEN SubSeq(buy_lots, 1, n - 1)
                     ELSE [buy_lots EXCEPT ![n] = <<lot_quantity - sold, buy_lots[n][2], buy_lots[n][3]>>]
         IN  MatchLots_newest_first(rest, remaining_to_sell - sold, executed_price,
                                    RAdd(realized_pl, gain))
    ELSE [buy_lots |-> buy_lots, realized_pl |-> realized_pl]

\* the while loop of a SELL: consume open lots from the head of the queue
RECURSIVE MatchLots(_, _, _, _)
MatchLots(buy_lots, remaining_to_sell, executed_price, realized_pl) ==
    IF remaining_to_sell > 0 /\ buy_lots # <<>>
    THEN LET lot_quantity == buy_lots[1][1]
             lot_price == buy_lots[1][2]
             lot_brokerage == buy_lots[1][3]
         IN  IF lot_quantity <= remaining_to_sell
             THEN LET cost_basis == RMul(RInt(lot_quantity), RAdd(lot_price, lot_brokerage))
                      gain == RSub(RMul(RInt(lot_quantity), executed_price), cost_basis)
                  IN  MatchLots(Tail(buy_lots), remaining_to_sell - lot_quantity,
                                executed_price, RAdd(realized_pl, gain))
             ELSE LET shares_sold_from_lot == remaining_to_sell
                      cost_basis == RMul(RInt(shares_sold_from_lot), RAdd(lot_price, lot_brokerage))
                      gain == RSub(RMul(RInt(shares_sold_from_lot), executed_price), cost_basis)
                      remaining_quantity == lot_quantity - shares_sold_from_lot
                  IN  MatchLots(<<Lot(remaining_quantity, lot_price, lot_brokerage)>> \o Tail(buy_lots),
                                0, executed_price, RAdd(realized_pl, gain))
    ELSE [buy_lots |-> buy_lots, realized_pl |-> realized_pl]

\* the shares held by the open lots
RECURSIVE LotQuantities(_)
LotQuantities(buy_lots) ==
    IF buy_lots = <<>> THEN 0 ELSE buy_lots[1][1] + LotQuantities(Tail(buy_lots))

FifoInit ==
    [buy_lots |-> <<>>,
     total_quantity_bought |-> 0,
     total_quantity_sold |-> 0,
     total_cost_bought |-> RZero,
     total_proceeds_sold |-> RZero,
     realized_pl |-> RZero]

ApplyBuy(st, trade) ==
    LET quantity == trade.quantity
        price_per_share == trade.executed_price
        brokerage_per_share == IF quantity > 0 THEN RDiv(trade.brokerage, RInt(quantity)) ELSE RZero
    IN  [st EXCEPT !.buy_lots = Append(@, Lot(quantity, price_per_share, brokerage_per_share)),
                   !.total_quantity_bought = @ + quantity,
                   !.total_cost_bought = RAdd(@, RAdd(RMul(RInt(quantity), price_per_share), trade.brokerage))]

\* (variant: only the matched part of a SELL is counted as sold)
ApplySell_matched_only(st, trade) ==
    LET m == MatchLots(st.buy_lots, trade.quantity, trade.executed_price, st.realized_pl)
        open == LotQuantities(st.buy_lots)
        matched == IF trade.quantity <= open THEN trade.quantity ELSE open
        sell_proceeds == RSub(RMul(RInt(matched), trade.executed_price), trade.brokerage)
    IN  [st EXCEPT !.total_proceeds_sold = RAdd(@, sell_proceeds),
                   !.total_quantity_sold = @ + matched,
                   !.buy_lots = m.buy_lots,
                   !.realized_pl = m.realized_pl]

ApplySell(st, trade) ==
    LET sell_proceeds == RSub(RMul(RInt(trade.quantity), trade.executed_price), trade.brokerage)
        m == MatchLots(st.buy_lots, trade.quantity, trade.executed_price, st.realized_pl)
    IN  [st EXCEPT !.total_proceeds_sold = RAdd(@, sell_proceeds),
                   !.total_quantity_sold = @ + trade.quantity,
                   !.buy_lots = m.buy_lots,
                   !.realized_pl = m.realized_pl]

ApplyTrade(st, trade) ==
    IF trade.trade_type = "BUY" THEN ApplyBuy(st, trade)
    ELSE IF trade.trade_type = "SELL" THEN ApplySell(st, trade)
    ELSE st

\* the for loop over the trades of one symbol, in trade_date order
RECURSIVE ProcessTrades(_, _)
ProcessTrades(ts, st) ==
    IF ts = <<>> THEN st ELSE ProcessTrades(Tail(ts), ApplyTrade(st, Head(ts)))

RECURSIVE SumLots(_)
SumLots(buy_lots) ==
    IF buy_lots = <<>> THEN RZero
    ELSE RAdd(RMul(RInt(buy_lots[1][1]), RAdd(buy_lots[1][2], buy_lots[1][3])),
              SumLots(Tail(buy_lots)))

\* trades_collection.find({portfolio_name, symbol}).sort("trade_date", 1)
TradesOf(all_trades, portfolio_name, symbol) ==
    SelectSeq(all_trades, LAMBDA t : t.portfolio_name = portfolio_name /\ t.symbol = symbol)

\* (variant: only a negative net quantity is dropped)
calculate_fifo_position_keep_flat(all_trades, portfolio_name, symbol, instrument_type) ==
    LET Result(st, position_quantity, remaining_cost_basis) ==
            IF position_quantity < 0 THEN None
            ELSE [symbol |-> symbol,
                  instrument_type |-> instrument_type,
                  position_quantity |-> position_quantity,
                  total_cost |-> remaining_cost_basis,
                  total_proceeds |-> st.total_proceeds_sold,
                  net_cost |-> remaining_cost_basis,
                  total_quantity_bought |-> st.total_quantity_bought,
                  total_quantity_sold |-> st.total_quantity_sold,
                  total_cost_bought |-> st.total_cost_bought,
                  total_proceeds_sold |-> st.total_proceeds_sold,
                  average_cost |-> IF position_quantity > 0
                                   THEN RDiv(remaining_cost_basis, RInt(position_quantity))
                                   ELSE RZero,
                  realized_pl |-> st.realized_pl]
        Loop(st) ==
            Result(st, st.total_quantity_bought - st.total_quantity_sold, SumLots(st.buy_lots))
        Query(ts) == IF ts = <<>> THEN None ELSE Loop(ProcessTrades(ts, FifoInit))
    IN  Query(TradesOf(all_trades, portfolio_name, symbol))

\* calculate_fifo_position: the position of one symbol, None when it is closed
calculate_fifo_position(all_trades, portfolio_name, symbol, instrument_type) ==
    LET Result(st, position_quantity, remaining_cost_basis) ==
            IF position_quantity <= 0 THEN None
            ELSE [symbol |-> symbol,
                  instrument_type |-> instrument_type,
                  position_quantity |-> position_quantity,
                  total_cost |-> remaining_cost_basis,
                  total_proceeds |-> st.total_proceeds_sold,
                  net_cost |-> remaining_cost_basis,
                  total_quantity_bought |-> st.total_quantity_bought,
                  total_quantity_sold |-> st.total_quantity_sold,
                  total_cost_bought |-> st.total_cost_bought,
                  total_proceeds_sold |-> st.total_proceeds_sold,
                  average_cost |-> IF position_quantity > 0
                                   THEN RDiv(remaining_cost_basis, RInt(position_quantity))
                                   ELSE RZero,
                  realized_pl |-> st.realized_pl]
        Loop(st) ==
            Result(st, st.total_quantity_bought - st.total_quantity_sold, SumLots(st.buy_lots))
        Query(ts) == IF ts = <<>> THEN None ELSE Loop(ProcessTrades(ts, FifoInit))
    IN  Query(TradesOf(all_trades, portfolio_name, symbol))

----------------------------------------------------------------------------
(* Dates: datetime.date as its proleptic Gregorian ordinal (date.toordinal) *)

FirstYear == 2023
LastYear == 2027
Years == FirstYear..LastYear

IsLeap(y) == (y % 4 = 0 /\ y % 100 # 0) \/ y % 400 = 0

DaysInMonth(y, m) ==
    IF m = 2 THEN (IF IsLeap(y) THEN 29 ELSE 28)
    ELSE IF m \in {4, 6, 9, 11} THEN 30 ELSE 31

DaysBeforeYear(y) ==
    LET p == y - 1 IN p * 365 + p \div 4 - p \div 100 + p \div 400

RECURSIVE DaysBeforeMonth(_, _)
DaysBeforeMonth(y, m) ==
    IF m = 1 THEN 0 ELSE DaysBeforeMonth(y, m - 1) + DaysInMonth(y, m - 1)

\* date(y, m, d)
Date(y, m, d) == DaysBeforeYear(y) + DaysBeforeMonth(y, m) + d

YearOf(n) == CHOOSE y \in Years : DaysBeforeYear(y) < n /\ n <= DaysBeforeYear(y + 1)

MonthOf(n) ==
    LET In(y) == CHOOSE m \in 1..12 : /\ Date(y, m, 1) <= n
                                      /\ n <= Date(y, m, DaysInMonth(y, m))
    IN  In(YearOf(n))

DayOf(n) == n - Date(YearOf(n), MonthOf(n), 1) + 1

\* date.weekday(): Monday is 0, Sunday is 6
Weekday(n) == (n + 6) % 7

----------------------------------------------------------------------------
(* CalendarResolver *)

holidays_2025 ==
    {Date(2025, 1, 1), Date(2025, 1, 20), Date(2025, 2, 17), Date(2025, 4, 18),
     Date(2025, 5, 26), Date(2025, 6, 19), Date(2025, 7, 4), Date(2025, 9, 1),
     Date(2025, 11, 27), Date(2025, 12, 25)}

holidays_2024 ==
    {Date(2024, 1, 1), Date(2024, 1, 15), Date(2024, 2, 19), Date(2024, 3, 29),
     Date(2024, 5, 27), Date(2024, 6, 19), Date(2024, 7, 4), Date(2024, 9, 2),
     Date(2024, 11, 28), Date(2024, 12, 25)}

\* while current_date.weekday() >= 5: current_date -= timedelta(days=1)
RECURSIVE SkipWeekend(_)
SkipWeekend(current_date) ==
    IF Weekday(current_date) >= 5 THEN SkipWeekend(current_date - 1) ELSE current_date

\* while current_date in holidays: step back a day, then over the weekend
RECURSIVE SkipHolidays(_, _)
SkipHolidays(current_date, holidays) ==
    IF current_date \in holidays
    THEN SkipHolidays(SkipWeekend(current_date - 1), holidays)
    ELSE current_date

_get_previous_trading_day(target_date) ==
    SkipHolidays(SkipWeekend(target_date - 1), holidays_2025)

_get_last_trading_day_of_previous_month(target_date) ==
    LET first_day_current_month == Date(YearOf(target_date), MonthOf(target_date), 1)
        last_day_previous_month == first_day_current_month - 1
    IN  SkipHolidays(SkipWeekend(last_day_previous_month), holidays_2025)

_get_last_trading_day_of_previous_year(target_date) ==
    LET last_day_previous_year == Date(YearOf(target_date) - 1, 12, 31)
    IN  SkipHolidays(SkipWeekend(last_day_previous_year), holidays_2024)

----------------------------------------------------------------------------
(* Queries on the daily_snapshots collection *)

\* find_one({portfolio_name, symbol, snapshot_date: d}): first match in natural order
find_one_exact(store, portfolio_name, symbol, d) ==
    LET First(m) == IF m = <<>> THEN None ELSE m[1]
    IN  First(SelectSeq(store, LAMBDA x : /\ x.portfolio_name = portfolio_name
                                          /\ x.symbol = symbol
                                          /\ x.snapshot_date = d))

\* (variant: the sort is ascending, the oldest document is returned)
find_one_lte_oldest(store, portfolio_name, symbol, d) ==
    LET Oldest(m) ==
            IF m = <<>> THEN None
            ELSE SelectSeq(m, LAMBDA x : \A k \in 1..Len(m) :
                                            x.snapshot_date <= m[k].snapshot_date)[1]
    IN  Oldest(SelectSeq(store, LAMBDA x : /\ x.portfolio_name = portfolio_name
                                           /\ x.symbol = symbol
                                           /\ x.snapshot_date <= d))

\* find_one({..., snapshot_date: {$lte: d}}, sort=[("snapshot_date", -1)]);
\* among documents of the latest date the first in natural order
find_one_lte(store, portfolio_name, symbol, d) ==
    LET Latest(m) ==
            IF m = <<>> THEN None
            ELSE SelectSeq(m, LAMBDA x : \A k \in 1..Len(m) :
                                            m[k].snapshot_date <= x.snapshot_date)[1]
    IN  Latest(SelectSeq(store, LAMBDA x : /\ x.portfolio_name = portfolio_name
                                           /\ x.symbol = symbol
                                           /\ x.snapshot_date <= d))

\* find_one({..., snapshot_date: {$lt: d}}, sort=[("snapshot_date", -1)])
find_one_lt(store, portfolio_name, symbol, d) ==
    find_one_lte(store, portfolio_name, symbol, d - 1)

PlOf(snapshot) == IF snapshot # None THEN snapshot.inception_pl ELSE RZero

\* routers/portfolios.py: the DTD/MTD/YTD figures attached to a positions() row
calculate_dtd_mtd_ytd_pl_for_symbol(store, tdy, portfolio_name, symbol, current_inception_pl) ==
    LET \* if not snapshot: the most recent snapshot on or before the date
        OrLatest(snapshot, d) ==
            IF snapshot = None THEN find_one_lte(store, portfolio_name, symbol, d) ELSE snapshot
        Lookups(previous_trading_day, last_month_end, last_year_end) ==
            [dtd_pl |-> RSub(current_inception_pl,
                             PlOf(find_one_exact(store, portfolio_name, symbol, previous_trading_day))),
             mtd_pl |-> RSub(current_inception_pl,
                             PlOf(OrLatest(find_one_exact(store, portfolio_name, symbol, last_month_end),
                                           last_month_end))),
             ytd_pl |-> RSub(current_inception_pl,
                             PlOf(OrLatest(find_one_exact(store, portfolio_name, symbol, last_year_end),
                                           last_year_end)))]
    IN  Lookups(_get_previous_trading_day(tdy),
                _get_last_trading_day_of_previous_month(tdy),
                _get_last_trading_day_of_previous_year(tdy))

----------------------------------------------------------------------------
(* Positions: the part of get_portfolio_positions that needs no price *)

\* trades_collection.distinct("symbol", {portfolio_name}), in a fixed order
SymbolOrder == <<"AAPL", "CASH_USD", "MSFT">>
Symbols == {SymbolOrder[k] : k \in 1..Len(SymbolOrder)}

\* the list of positions, one per symbol with a positive net quantity
RECURSIVE PositionsFrom(_, _, _)
PositionsFrom(all_trades, portfolio_name, k) ==
    IF k > Len(SymbolOrder) THEN <<>>
    ELSE LET Keep(position) == IF position = None THEN <<>> ELSE <<position>>
             Symbol(ts) ==
                 IF ts = <<>> THEN <<>>
                 ELSE Keep(calculate_fifo_position(all_trades, portfolio_name, SymbolOrder[k],
                                                   ts[1].instrument_type))
         IN  Symbol(TradesOf(all_trades, portfolio_name, SymbolOrder[k]))
                 \o PositionsFrom(all_trades, portfolio_name, k + 1)

\* one row of the response; price_data is the quote the row was valued with
\* (kept beside the row to tell where a price came from)
position_summary(portfolio_name, position, price_data, store, tdy) ==
    LET Row(current_price, market_value, unrealized_pl, unrealized_pl_percent, inception_pl, pl) ==
            [portfolio_name |-> portfolio_name,
             symbol |-> position.symbol,
             instrument_type |-> position.instrument_type,
             position_quantity |-> position.position_quantity,
             average_cost |-> Round2(position.average_cost),
             current_price |-> Round2(current_price),
             market_value |-> Round2(market_value),
             total_cost |-> Round2(position.total_cost),
             net_cost |-> Round2(position.net_cost),
             unrealized_pl |-> Round2(unrealized_pl),
             unrealized_pl_percent |-> Round2(unrealized_pl_percent),
             inception_pl |-> Round2(inception_pl),
             dtd_pl |-> Round2(pl.dtd_pl),
             mtd_pl |-> Round2(pl.mtd_pl),
             ytd_pl |-> Round2(pl.ytd_pl),
             price_data |-> price_data]
        Periods(current_price, market_value, unrealized_pl, unrealized_pl_percent, inception_pl) ==
            Row(current_price, market_value, unrealized_pl, unrealized_pl_percent, inception_pl,
                calculate_dtd_mtd_ytd_pl_for_symbol(store, tdy, portfolio_name,
                                                    position.symbol, inception_pl))
        Percent(current_price, market_value, unrealized_pl) ==
            Periods(current_price, market_value, unrealized_pl,
                    IF position.net_cost # RZero
                    THEN RMul(RDiv(unrealized_pl, position.net_cost), RInt(100))
                    ELSE RZero,
                    \* inception_pl = market_value + total_proceeds - total_cost
                    RSub(RAdd(market_value, position.total_proceeds), position.total_cost))
        Value(current_price, market_value) ==
            Percent(current_price, market_value, RSub(market_value, position.net_cost))
        Priced(current_price) ==
            Value(current_price, RMul(RInt(position.position_quantity), current_price))
    IN  Priced(IF price_data # None THEN price_data.price ELSE position.average_cost)

----------------------------------------------------------------------------
(* Option symbols: generate_option_symbol and _parse_option_symbol.  A str  *)
(* is the sequence of its characters.                                        *)

UpperCase ==
    <<"A", "B", "C", "D", "E", "F", "G", "H", "I", "J", "K", "L", "M",
      "N", "O", "P", "Q", "R", "S", "T", "U", "V", "W", "X", "Y", "Z">>

LowerCase ==
    <<"a", "b", "c", "d", "e", "f", "g", "h", "i", "j", "k", "l", "m",
      "n", "o", "p", "q", "r", "s", "t", "u", "v", "w", "x", "y", "z">>

Digits == <<"0", "1", "2", "3", "4", "5", "6", "7", "8", "9">>

IsUpper(ch) == \E k \in DOMAIN UpperCase : UpperCase[k] = ch
IsDigit(ch) == \E k \in DOMAIN Digits : Digits[k] = ch

\* str.upper(): a lower-case letter becomes its capital, any other character stays
upper(s) ==
    [j \in 1..Len(s) |->
        IF \E k \in DOMAIN LowerCase : LowerCase[k] = s[j]
        THEN UpperCase[CHOOSE k \in DOMAIN LowerCase : LowerCase[k] = s[j]]
        ELSE s[j]]

\* int(s) of a string of digits
RECURSIVE int(_)
int(s) ==
    IF s = <<>> THEN 0
    ELSE int(SubSeq(s, 1, Len(s) - 1)) * 10 + (CHOOSE k \in DOMAIN Digits : Digits[k] = s[Len(s)]) - 1

\* str(n), n >= 0
RECURSIVE Decimal(_)
Decimal(n) ==
    IF n < 10 THEN <<Digits[n + 1]>>
    ELSE Decimal(n \div 10) \o <<Digits[(n % 10) + 1]>>

\* the formats %02d and :08d: zeros on the left up to width, never a cut
RECURSIVE ZeroPad(_, _)
ZeroPad(s, width) == IF Len(s) >= width THEN s ELSE ZeroPad(<<"0">> \o s, width)

\* int(x) of a float x >= 0: the fraction is dropped
Trunc(x) == x.num \div x.den

\* UNDERLYING + YYMMDD + C/P + strike * 1000 on eight digits or more
generate_option_symbol(underlying, expiration, option_type, strike) ==
    LET exp_str == ZeroPad(Decimal(YearOf(expiration) % 100), 2)
                   \o ZeroPad(Decimal(MonthOf(expiration)), 2)
                   \o ZeroPad(Decimal(DayOf(expiration)), 2)
        type_code == IF option_type = "CALL" THEN "C" ELSE "P"
        strike_str == ZeroPad(Decimal(Trunc(RMul(strike, RInt(1000)))), 8)
    IN  upper(underlying) \o exp_str \o <<type_code>> \o strike_str

\* re.match(r'^[A-Z]{1,5}\d{6}[CP]\d{8}$', symbol): k letters, then 15 characters
_is_option_symbol(symbol) ==
    LET k == Len(symbol) - 15
    IN  /\ k \in 1..5
        /\ \A j \in 1..k : IsUpper(symbol[j])
        /\ \A j \in (k + 1)..(k + 6) : IsDigit(symbol[j])
        /\ symbol[k + 7] \in {"C", "P"}
        /\ \A j \in (k + 8)..(k + 15) : IsDigit(symbol[j])

\* the dict of the symbol's components, None when the pattern does not match
\* or datetime(year, month, day) raises
_parse_option_symbol(symbol) ==
    IF ~_is_option_symbol(symbol) THEN None
    ELSE LET k == Len(symbol) - 15
             year == 2000 + int(SubSeq(symbol, k + 1, k + 2))
             month == int(SubSeq(symbol, k + 3, k + 4))
             day == int(SubSeq(symbol, k + 5, k + 6))
         IN  IF month \notin 1..12 THEN None
             ELSE IF day \notin 1..DaysInMonth(year, month) THEN None
             ELSE [underlying |-> SubSeq(symbol, 1, k),
                   expiration |-> Date(year, month, day),
                   type |-> IF symbol[k + 7] = "C" THEN "call" ELSE "put",
                   strike |-> Rat(int(SubSeq(symbol, k + 8, k + 15)), 1000)]

\* _is_option_expired
_is_option_expired(expiration_date, tdy) == expiration_date < tdy

----------------------------------------------------------------------------
(* PriceOracle: MarketDataService *)

\* self.cache_duration = timedelta(seconds=3)
cache_duration == 3

\* A quote.  round is not a field of the code's dict: it names the provider
\* fetch round the quote was obtained in (0 for a quote built without one).
Quote(symbol, price, source, price_type, round) ==
    [symbol |-> symbol, price |-> price, source |-> source,
     price_type |-> price_type, round |-> round]

\* the CASH_USD quote of get_stock_price (it has no price_type key)
cash_data == Quote("CASH_USD", RInt(1), "Cash Position (Fixed Value)", "absent", 0)

\* the CASH_USD quote of get_multiple_prices
cash_data_batch == Quote("CASH_USD", RInt(1), "Cash Position (Fixed Value)", "cash", 0)

\* What yf.Ticker(symbol).info can give: an exception, a dict without a
\* regular market price, or prices (0 stands for a missing or zero entry).
Info(status, regular, pre, post) ==
    [status |-> status, regularMarketPrice |-> regular,
     preMarketPrice |-> pre, postMarketPrice |-> post]

InfoError == Info("error", 0, 0, 0)
InfoEmpty == Info("ok", 0, 0, 0)

\* pre-market price, else post-market price, else regular market price
YahooQuote(symbol, info, round) ==
    IF info.status = "ok" /\ info.regularMarketPrice # 0
    THEN IF info.preMarketPrice > 0
         THEN Quote(symbol, RInt(info.preMarketPrice), "Yahoo Finance (Pre-Market)", "pre_market", round)
         ELSE IF info.postMarketPrice > 0
         THEN Quote(symbol, RInt(info.postMarketPrice), "Yahoo Finance (Post-Market)", "post_market", round)
         ELSE Quote(symbol, RInt(info.regularMarketPrice), "Yahoo Finance (Regular Market)", "regular_market", round)
    ELSE None

\* (variant: an entry is still served when its age equals cache_duration)
_is_cache_valid_inclusive(cch, symbol, t) ==
    /\ cch[symbol] # None
    /\ t - cch[symbol].timestamp <= cache_duration

_is_cache_valid(cch, symbol, t) ==
    /\ cch[symbol] # None
    /\ t - cch[symbol].timestamp < cache_duration

\* (variant: a refresh replaces the data of an entry and keeps its timestamp)
_cache_data_keep_timestamp(cch, symbol, data, t) ==
    [cch EXCEPT ![symbol] = [data |-> data,
                             timestamp |-> IF cch[symbol] # None THEN cch[symbol].timestamp ELSE t]]

_cache_data(cch, symbol, data, t) ==
    [cch EXCEPT ![symbol] = [data |-> data, timestamp |-> t]]

EmptyCache == [s \in Symbols |-> None]

\* the characters of the symbols the requests name
Spelling(symbol) ==
    CASE symbol = "AAPL" -> <<"A", "A", "P", "L">>
      [] symbol = "MSFT" -> <<"M", "S", "F", "T">>
      [] symbol = "CASH_USD" -> <<"C", "A", "S", "H", "_", "U", "S", "D">>
      [] symbol = "AAPL250822C00227500" ->
             <<"A", "A", "P", "L", "2", "5", "0", "8", "2", "2", "C",
               "0", "0", "2", "2", "7", "5", "0", "0">>
      [] symbol = "MSFT251301P00030000" ->
             <<"M", "S", "F", "T", "2", "5", "1", "3", "0", "1", "P",
               "0", "0", "0", "3", "0", "0", "0", "0">>

\* the quote of an option past its expiration (it has no price_type key)
expired_option_data(symbol) ==
    Quote(symbol, RZero, "Expired Option (No Value)", "absent", 0)

\* get_option_data in the executor.  chain is what the provider's option
\* chain holds: "listed" (the contract is in the chain: option_data.iloc[0]
\* subscripts a method, the TypeError is caught and None returned), "absent"
\* (no such contract) or "error" (the expiration is not listed, or the
\* request raised)
get_option_data(symbol, chain, round) ==
    IF chain = "absent"
    THEN Quote(symbol, RZero, "Option Not Found in Chain", "absent", round)
    ELSE None

\* get_stock_price up to its first await: a cache hit, CASH_USD and an
\* expired option return at once, anything else waits for the provider: an
\* option for its chain (pc option_fetch), any other symbol for its quote.
\* (With an Alpha Vantage key _get_alpha_vantage_price runs first; it names
\* the module aiohttp, which market_data.py never imports, so it returns
\* None without suspending.)
GetEnter(cch, symbol, force_refresh, t) ==
    IF ~force_refresh /\ _is_cache_valid(cch, symbol, t)
    THEN [await |-> FALSE, pc |-> "", value |-> cch[symbol].data, cache |-> cch]
    ELSE IF symbol = "CASH_USD"
    THEN [await |-> FALSE, pc |-> "", value |-> cash_data,
          cache |-> _cache_data(cch, symbol, cash_data, t)]
    ELSE IF ~_is_option_symbol(Spelling(symbol))
    THEN [await |-> TRUE, pc |-> "get_fetch", value |-> None, cache |-> cch]
    ELSE LET Option(option_info) ==
                 IF option_info = None
                 THEN [await |-> TRUE, pc |-> "get_fetch", value |-> None, cache |-> cch]
                 ELSE IF _is_option_expired(option_info.expiration, today)
                 THEN [await |-> FALSE, pc |-> "", value |-> expired_option_data(symbol),
                       cache |-> _cache_data(cch, symbol, expired_option_data(symbol), t)]
                 ELSE [await |-> TRUE, pc |-> "option_fetch", value |-> None, cache |-> cch]
         IN  Option(_parse_option_symbol(Spelling(symbol)))

\* get_multiple_prices up to its await: CASH_USD is answered at once and the
\* remaining symbols go to one executor call
BatchEnter(symbols) ==
    LET has_cash == \E k \in 1..Len(symbols) : symbols[k] = "CASH_USD"
    IN  [results |-> IF has_cash THEN [s \in {"CASH_USD"} |-> cash_data_batch] ELSE <<>>,
         symbols |-> SelectSeq(symbols, LAMBDA s : s # "CASH_USD")]

SeqSet(q) == {q[k] : k \in 1..Len(q)}

\* dict.update
Update(d, e) ==
    [s \in DOMAIN d \cup DOMAIN e |-> IF s \in DOMAIN e THEN e[s] ELSE d[s]]

\* all_prices.get(symbol)
DictGet(d, s) == IF s \in DOMAIN d THEN d[s] ELSE None

\* (variant: a symbol with a cache entry is answered from the cache)
batch_fetch_prices_cached(symbols, infos, round) ==
    [s \in SeqSet(symbols) |-> IF cache[s] # None THEN cache[s].data
                               ELSE YahooQuote(s, infos[s], round)]

\* batch_fetch_prices in the executor: one quote or None per symbol
batch_fetch_prices(symbols, infos, round) ==
    [s \in SeqSet(symbols) |-> YahooQuote(s, infos[s], round)]

----------------------------------------------------------------------------
(* Requests.  Each client runs one coroutine at a time; pc is the await the *)
(* coroutine is suspended at.  call_time, cached_at_call, requested, rounds, *)
(* trades_seen, infos, asked, repeat, clean, inserted, listed, visited and   *)
(* failed record what the request saw and did, for the properties.          *)

Clients == {"c1", "c2"}

MaxRounds == 2
MaxTrades == 3
MaxTime == 3

Idle ==
    [op |-> "idle", pc |-> "idle", ret |-> "",
     portfolio_name |-> "", force_fresh |-> FALSE,
     symbol |-> "", symbols |-> <<>>, round |-> 0,
     positions |-> <<>>, i |-> 0, all_prices |-> <<>>, rows |-> <<>>,
     result |-> None,
     snapshot_date |-> 0, snapshots_created |-> 0,
     filter |-> "", todo |-> <<>>, analysis |-> <<>>, totals |-> <<>>,
     runner |-> "", task |-> 0, queue |-> <<>>, results |-> <<>>, asked |-> <<>>,
     option |-> None,
     portfolios |-> <<>>, listed |-> <<>>, visited |-> <<>>, failed |-> {},
     call_time |-> 0, cached_at_call |-> None, requested |-> <<>>,
     rounds |-> {}, trades_seen |-> <<>>, infos |-> <<>>,
     repeat |-> FALSE, clean |-> TRUE, inserted |-> {}]

\* the request has returned; its answer is result
Done(r, value) == [r EXCEPT !.pc = "done", !.result = value]

\* the trades or the stored snapshots change under the snapshot calls in flight
Disturb(rq) ==
    [c \in DOMAIN rq |-> IF rq[c].op = "create" THEN [rq[c] EXCEPT !.clean = FALSE] ELSE rq[c]]

\* create_simple_daily_snapshot: the for loop over the positions.  After the
\* last one the next portfolio is due (pc cr_next); after the last portfolio
\* it returns snapshots_created, to the client or to the run_scheduled_task
\* that called it
SnapshotLoop(r) ==
    IF r.i > Len(r.rows)
    THEN (IF r.portfolios # <<>> THEN [r EXCEPT !.pc = "cr_next"]
          ELSE IF r.runner = "" THEN Done(r, r.snapshots_created)
          ELSE [r EXCEPT !.pc = "run_return"])
    ELSE [r EXCEPT !.pc = "cr_find"]

\* (variant: an exception ends the call, which returns what it has counted)
EndPortfolio_abort(r) ==
    SnapshotLoop([r EXCEPT !.i = Len(r.rows) + 1, !.portfolios = <<>>,
                           !.failed = @ \cup {r.portfolio_name}, !.clean = FALSE])

\* except Exception: log and continue: the rest of the portfolio's positions
\* is skipped and the loop goes to the next portfolio
EndPortfolio(r) ==
    SnapshotLoop([r EXCEPT !.i = Len(r.rows) + 1,
                           !.failed = @ \cup {r.portfolio_name}, !.clean = FALSE])

\* portfolio_totals before the first position
ZeroTotals ==
    [dtd_pl |-> RZero, mtd_pl |-> RZero, ytd_pl |-> RZero, current_total_pl |-> RZero,
     previous_trading_day_total_pl |-> RZero,
     last_trading_day_of_previous_month_total_pl |-> RZero,
     last_trading_day_of_previous_year_total_pl |-> RZero]

\* the row appended after the per-symbol rows
portfolio_summary(portfolio_name, portfolio_totals, tdy) ==
    [portfolio_name |-> portfolio_name,
     type |-> "portfolio_summary",
     current_total_pl |-> Round2(portfolio_totals.current_total_pl),
     dtd_pl |-> Round2(portfolio_totals.dtd_pl),
     mtd_pl |-> Round2(portfolio_totals.mtd_pl),
     ytd_pl |-> Round2(portfolio_totals.ytd_pl),
     previous_trading_day_total_pl |-> Round2(portfolio_totals.previous_trading_day_total_pl),
     last_trading_day_of_previous_month_total_pl |->
         Round2(portfolio_totals.last_trading_day_of_previous_month_total_pl),
     last_trading_day_of_previous_year_total_pl |->
         Round2(portfolio_totals.last_trading_day_of_previous_year_total_pl),
     analysis_date |-> tdy]

\* calculate_dtd_mtd_ytd_pl_simple: the for loop over the positions that pass
\* the symbol filter; after the last one the summary row is appended
AttributionLoop(r, tdy) ==
    IF r.i > Len(r.todo)
    THEN Done(r, Append(r.analysis, portfolio_summary(r.portfolio_name, r.totals, tdy)))
    ELSE [r EXCEPT !.pc = "attr_row"]

\* if symbol and position["symbol"] != symbol: continue
PassFilter(rows, symbol) ==
    SelectSeq(rows, LAMBDA position : ~(symbol # "" /\ position.symbol # symbol))

\* get_portfolio_positions returns rows: to the client, or to the service
\* method that called it through get_portfolio_positions_simple
PositionsReturn(r, rows) ==
    IF r.ret = "create" THEN SnapshotLoop([r EXCEPT !.rows = rows, !.i = 1])
    ELSE IF r.ret = "attr"
    THEN AttributionLoop([r EXCEPT !.rows = rows, !.i = 1,
                                   !.todo = PassFilter(rows, r.filter),
                                   !.totals = ZeroTotals], today)
    ELSE Done([r EXCEPT !.rows = rows], rows)

\* (variant: a position without a price gets no row)
AddRow_skip_unpriced(r, price_data, store, tdy) ==
    LET Next(rows) ==
            IF r.i = Len(r.positions)
            THEN PositionsReturn(r, rows)
            ELSE [r EXCEPT !.rows = rows, !.i = @ + 1, !.pc = "pos_row"]
    IN  Next(IF price_data = None THEN r.rows
             ELSE Append(r.rows, position_summary(r.portfolio_name, r.positions[r.i],
                                                  price_data, store, tdy)))

\* positions(): the row of position i is complete; after the last row the
\* handler returns the rows
AddRow(r, price_data, store, tdy) ==
    LET Next(rows) ==
            IF r.i = Len(r.positions)
            THEN PositionsReturn(r, rows)
            ELSE [r EXCEPT !.rows = rows, !.i = @ + 1, !.pc = "pos_row"]
    IN  Next(Append(r.rows, position_summary(r.portfolio_name, r.positions[r.i],
                                             price_data, store, tdy)))

\* trades_collection.insert_one, kept in the order sort("trade_date", 1) gives
InsertByDate(ts, t) ==
    LET k == Cardinality({j \in 1..Len(ts) : ts[j].trade_date <= t.trade_date})
    IN  SubSeq(ts, 1, k) \o <<t>> \o SubSeq(ts, k + 1, Len(ts))

\* POST /trades
AddTrade(t) ==
    /\ Len(trades) < MaxTrades
    /\ trades' = InsertByDate(trades, t)
    /\ completed' = {}
    /\ req' = Disturb(req)
    /\ UNCHANGED <<daily_snapshots, next_id, today, now, cache, next_round, scheduled_tasks, task_counter>>

\* datetime.now() advances
Tick ==
    /\ now < MaxTime
    /\ now' = now + 1
    /\ UNCHANGED <<trades, daily_snapshots, completed, next_id, today, cache, next_round, req, scheduled_tasks, task_counter>>

\* GET /market-data/price/{symbol}: get_stock_price(symbol, force_refresh)
CallGetStockPrice(c, symbol, force_refresh) ==
    /\ req[c].op = "idle"
    /\ LET e == GetEnter(cache, symbol, force_refresh, now)
           r == [Idle EXCEPT !.op = "get", !.ret = "top", !.symbol = symbol,
                             !.force_fresh = force_refresh, !.call_time = now,
                             !.cached_at_call = cache[symbol]]
       IN  IF e.await
           THEN /\ next_round < MaxRounds
                /\ next_round' = next_round + 1
                /\ cache' = cache
                /\ req' = [req EXCEPT ![c] = [r EXCEPT !.pc = e.pc,
                                                       !.round = next_round + 1,
                                                       !.rounds = {next_round + 1}]]
           ELSE /\ next_round' = next_round
                /\ cache' = e.cache
                /\ req' = [req EXCEPT ![c] = Done(r, e.value)]
    /\ UNCHANGED <<trades, daily_snapshots, completed, next_id, today, now, scheduled_tasks, task_counter>>

\* _get_yahoo_finance_price returns: cache a quote, hand it to the caller
YahooDone(c, info) ==
    /\ req[c].pc = "get_fetch"
    /\ LET r == req[c]
           price_data == YahooQuote(r.symbol, info, r.round)
       IN  /\ cache' = IF price_data # None
                       THEN _cache_data(cache, r.symbol, price_data, now)
                       ELSE cache
           /\ req' = [req EXCEPT ![c] =
                         IF r.ret = "top" THEN Done(r, price_data)
                         ELSE AddRow(r, price_data, daily_snapshots, today)]
    /\ UNCHANGED <<trades, daily_snapshots, completed, next_id, today, now, next_round, scheduled_tasks, task_counter>>

\* _get_option_price returns: a quote is cached and handed to the caller;
\* after None get_stock_price goes on to _get_yahoo_finance_price
OptionDone(c, chain) ==
    /\ req[c].pc = "option_fetch"
    /\ LET r == req[c]
           price_data == get_option_data(r.symbol, chain, r.round)
       IN  IF price_data # None
           THEN /\ cache' = _cache_data(cache, r.symbol, price_data, now)
                /\ next_round' = next_round
                /\ req' = [req EXCEPT ![c] =
                              IF r.ret = "top" THEN Done(r, price_data)
                              ELSE AddRow(r, price_data, daily_snapshots, today)]
           ELSE /\ next_round < MaxRounds
                /\ next_round' = next_round + 1
                /\ cache' = cache
                /\ req' = [req EXCEPT ![c] = [r EXCEPT !.pc = "get_fetch",
                                                       !.round = next_round + 1,
                                                       !.rounds = @ \cup {next_round + 1}]]
    /\ UNCHANGED <<trades, daily_snapshots, completed, next_id, today, now, scheduled_tasks, task_counter>>

\* POST /market-data/prices: get_multiple_prices(symbols)
CallGetMultiplePrices(c, symbols) ==
    /\ req[c].op = "idle"
    /\ LET b == BatchEnter(symbols)
           r == [Idle EXCEPT !.op = "batch", !.ret = "top", !.requested = symbols,
                             !.symbols = b.symbols, !.all_prices = b.results,
                             !.call_time = now]
       IN  IF b.symbols # <<>>
           THEN /\ next_round < MaxRounds
                /\ next_round' = next_round + 1
                /\ req' = [req EXCEPT ![c] = [r EXCEPT !.pc = "batch_fetch",
                                                       !.round = next_round + 1,
                                                       !.rounds = {next_round + 1}]]
           ELSE /\ next_round' = next_round
                /\ req' = [req EXCEPT ![c] = Done(r, b.results)]
    /\ UNCHANGED <<trades, daily_snapshots, completed, next_id, today, now, cache, scheduled_tasks, task_counter>>

\* the batch came back: hand all_prices to the caller
BatchReturn(r, all_prices) ==
    IF r.ret = "top" THEN Done([r EXCEPT !.all_prices = all_prices], all_prices)
    ELSE IF r.positions = <<>> THEN PositionsReturn([r EXCEPT !.all_prices = all_prices], <<>>)
    ELSE [r EXCEPT !.all_prices = all_prices, !.pc = "pos_row", !.i = 1]

\* (variant: an exception for one symbol escapes the loop and the batch
\* falls back to None for every symbol)
BatchDone_abort(c, infoSet) ==
    /\ req[c].pc = "batch_fetch"
    /\ \E infos \in [SeqSet(req[c].symbols) -> infoSet] :
          LET r == [req[c] EXCEPT !.infos = infos]
              batch_results ==
                  IF \E s \in DOMAIN infos : infos[s].status = "error"
                  THEN [s \in SeqSet(r.symbols) |-> None]
                  ELSE batch_fetch_prices(r.symbols, infos, r.round)
          IN  req' = [req EXCEPT ![c] =
                         BatchReturn(r, Update(r.all_prices, batch_results))]
    /\ UNCHANGED <<trades, daily_snapshots, completed, next_id, today, now, cache, next_round, scheduled_tasks, task_counter>>

\* run_in_executor(batch_fetch_prices) returns; the provider answers each
\* symbol of the round with one of infoSet
\* (variant: the batch stores every quote it fetched in the price cache)
BatchDone_caching(c, infoSet) ==
    /\ req[c].pc = "batch_fetch"
    /\ \E infos \in [SeqSet(req[c].symbols) -> infoSet] :
          LET r == [req[c] EXCEPT !.infos = infos]
              batch_results == batch_fetch_prices(r.symbols, infos, r.round)
          IN  /\ req' = [req EXCEPT ![c] =
                            BatchReturn(r, Update(r.all_prices, batch_results))]
              /\ cache' = [s \in Symbols |->
                              IF s \in DOMAIN batch_results /\ batch_results[s] # None
                              THEN [data |-> batch_results[s], timestamp |-> now]
                              ELSE cache[s]]
    /\ UNCHANGED <<trades, daily_snapshots, completed, next_id, today, now, next_round, scheduled_tasks, task_counter>>

BatchDone(c, infoSet) ==
    /\ req[c].pc = "batch_fetch"
    /\ \E infos \in [SeqSet(req[c].symbols) -> infoSet] :
          LET r == [req[c] EXCEPT !.infos = infos]
              batch_results == batch_fetch_prices(r.symbols, infos, r.round)
          IN  req' = [req EXCEPT ![c] =
                         BatchReturn(r, Update(r.all_prices, batch_results))]
    /\ UNCHANGED <<trades, daily_snapshots, completed, next_id, today, now, cache, next_round, scheduled_tasks, task_counter>>

\* run_in_executor raises: every symbol without a result gets None
BatchError(c) ==
    /\ req[c].pc = "batch_fetch"
    /\ LET r == req[c]
           failed == [s \in SeqSet(r.symbols) \ DOMAIN r.all_prices |-> None]
       IN  req' = [req EXCEPT ![c] =
                      BatchReturn(r, Update(r.all_prices, failed))]
    /\ UNCHANGED <<trades, daily_snapshots, completed, next_id, today, now, cache, next_round, scheduled_tasks, task_counter>>

SymbolsOf(positions) == [k \in 1..Len(positions) |-> positions[k].symbol]

\* get_portfolio_positions up to its first price await, for the request r0.
\* The reads of the trades collection are taken as one read.
StartPositions(c, r0, portfolio_name, force_fresh) ==
    LET Enter(positions, symbols_to_fetch, b) ==
            LET r == [r0 EXCEPT !.portfolio_name = portfolio_name,
                                !.force_fresh = force_fresh,
                                !.positions = positions, !.i = 1,
                                !.call_time = now, !.trades_seen = trades]
            IN  IF force_fresh /\ b.symbols # <<>>
                THEN /\ next_round < MaxRounds
                     /\ next_round' = next_round + 1
                     /\ req' = [req EXCEPT ![c] = [r EXCEPT !.pc = "batch_fetch",
                                                            !.requested = symbols_to_fetch,
                                                            !.symbols = b.symbols,
                                                            !.all_prices = b.results,
                                                            !.round = next_round + 1,
                                                            !.rounds = {next_round + 1}]]
                ELSE /\ next_round' = next_round
                     /\ req' = [req EXCEPT ![c] =
                                   IF positions = <<>> THEN PositionsReturn(r, <<>>)
                                   ELSE [r EXCEPT !.pc = "pos_row",
                                                  !.requested = IF force_fresh THEN symbols_to_fetch ELSE <<>>,
                                                  !.all_prices = IF force_fresh THEN b.results ELSE <<>>]]
        Found(positions) == Enter(positions, SymbolsOf(positions), BatchEnter(SymbolsOf(positions)))
    IN  Found(PositionsFrom(trades, portfolio_name, 1))

\* GET /portfolios/{portfolio_name}/positions
CallPositions(c, portfolio_name, force_fresh) ==
    /\ req[c].op = "idle"
    /\ StartPositions(c, [Idle EXCEPT !.op = "positions", !.ret = "pos"], portfolio_name, force_fresh)
    /\ UNCHANGED <<trades, daily_snapshots, completed, next_id, today, now, cache, scheduled_tasks, task_counter>>

\* positions(): price position i and build its row
PosRow(c) ==
    /\ req[c].pc = "pos_row"
    /\ LET r == req[c]
           symbol == r.positions[r.i].symbol
           e == GetEnter(cache, symbol, FALSE, now)
       IN  IF r.force_fresh
           THEN /\ req' = [req EXCEPT ![c] =
                              AddRow(r, DictGet(r.all_prices, symbol), daily_snapshots, today)]
                /\ UNCHANGED <<cache, next_round>>
           ELSE IF e.await
           THEN /\ next_round < MaxRounds
                /\ next_round' = next_round + 1
                /\ cache' = cache
                /\ req' = [req EXCEPT ![c] = [r EXCEPT !.pc = e.pc,
                                                       !.symbol = symbol,
                                                       !.round = next_round + 1,
                                                       !.rounds = @ \cup {next_round + 1}]]
           ELSE /\ next_round' = next_round
                /\ cache' = e.cache
                /\ req' = [req EXCEPT ![c] = AddRow(r, e.value, daily_snapshots, today)]
    /\ UNCHANGED <<trades, daily_snapshots, completed, next_id, today, now, scheduled_tasks, task_counter>>

\* the response has been sent
Return(c) ==
    /\ req[c].pc = "done"
    /\ req' = [req EXCEPT ![c] = Idle]
    /\ UNCHANGED <<trades, daily_snapshots, completed, next_id, today, now, cache, next_round, scheduled_tasks, task_counter>>

\* POST /options/generate-symbol.  option keeps the definition the caller
\* sent, the underlying in capitals as the options collection stores it.
CallGenerateSymbol(c, underlying_symbol, expiration_date, option_type, strike_price) ==
    /\ req[c].op = "idle"
    /\ LET r == [Idle EXCEPT !.op = "generate", !.ret = "top",
                             !.option = [underlying_symbol |-> upper(underlying_symbol),
                                         expiration_date |-> expiration_date,
                                         option_type |-> option_type,
                                         strike_price |-> strike_price]]
           symbol == generate_option_symbol(underlying_symbol, expiration_date,
                                            option_type, strike_price)
       IN  req' = [req EXCEPT ![c] = Done(r, [option_symbol |-> symbol])]
    /\ UNCHANGED <<trades, daily_snapshots, completed, next_id, today, now, cache, next_round, scheduled_tasks, task_counter>>

----------------------------------------------------------------------------
(* SnapshotStore: create_simple_daily_snapshot, delete_snapshots_by_date,  *)
(* cleanup_old_snapshots                                                    *)

MaxId == 2

\* $sum of $quantity over the trades of one trade_type
RECURSIVE QuantityOf(_, _)
QuantityOf(ts, trade_type) ==
    IF ts = <<>> THEN 0
    ELSE (IF Head(ts).trade_type = trade_type THEN Head(ts).quantity ELSE 0)
             + QuantityOf(Tail(ts), trade_type)

\* $sum of quantity * executed_price + brokerage over the BUY trades
RECURSIVE CostBought(_)
CostBought(ts) ==
    IF ts = <<>> THEN RZero
    ELSE RAdd(IF Head(ts).trade_type = "BUY"
              THEN RAdd(RMul(RInt(Head(ts).quantity), Head(ts).executed_price), Head(ts).brokerage)
              ELSE RZero,
              CostBought(Tail(ts)))

\* $sum of quantity * executed_price - brokerage over the SELL trades
RECURSIVE ProceedsSold(_)
ProceedsSold(ts) ==
    IF ts = <<>> THEN RZero
    ELSE RAdd(IF Head(ts).trade_type = "SELL"
              THEN RSub(RMul(RInt(Head(ts).quantity), Head(ts).executed_price), Head(ts).brokerage)
              ELSE RZero,
              ProceedsSold(Tail(ts)))

\* fetch_historical_market_data: the close the provider has for the date, 0.0
\* when it has none (close = 0 stands for that)
fetch_historical_market_data(symbol, close) ==
    IF symbol = "CASH_USD" THEN RInt(1) ELSE RInt(close)

\* one group of the aggregation, valued at the historical price
date_position(symbol, ts, historical_price) ==
    LET Row(net_quantity, average_cost, current_price, cost_bought, proceeds_sold) ==
            [symbol |-> symbol,
             instrument_type |-> ts[1].instrument_type,
             position_quantity |-> net_quantity,
             average_cost |-> Round2(average_cost),
             current_price |-> Round2(current_price),
             market_value |-> Round2(RMul(RInt(net_quantity), current_price)),
             total_cost |-> Round2(cost_bought),
             net_cost |-> Round2(RSub(cost_bought, proceeds_sold)),
             unrealized_pl |-> Round2(RMul(RInt(net_quantity), RSub(current_price, average_cost))),
             realized_pl |-> Round2(proceeds_sold),
             \* total_pl = realized_pl + unrealized_pl
             inception_pl |-> Round2(RAdd(proceeds_sold,
                                          RMul(RInt(net_quantity), RSub(current_price, average_cost))))]
        Priced(net_quantity, average_cost, cost_bought, proceeds_sold) ==
            Row(net_quantity, average_cost,
                IF RLt(RZero, historical_price) THEN historical_price ELSE average_cost,
                cost_bought, proceeds_sold)
        Group(bought, sold, cost_bought, proceeds_sold) ==
            IF bought - sold <= 0 THEN None
            ELSE Priced(bought - sold,
                        IF bought > 0 THEN RDiv(cost_bought, RInt(bought)) ELSE RZero,
                        cost_bought, proceeds_sold)
    IN  Group(QuantityOf(ts, "BUY"), QuantityOf(ts, "SELL"), CostBought(ts), ProceedsSold(ts))

\* get_portfolio_positions_for_date: the positions as of snapshot_date, valued
\* at the closes of that date
RECURSIVE get_portfolio_positions_for_date(_, _, _, _, _)
get_portfolio_positions_for_date(all_trades, portfolio_name, snapshot_date, closes, k) ==
    IF k > Len(SymbolOrder) THEN <<>>
    ELSE LET Keep(position) == IF position = None THEN <<>> ELSE <<position>>
             Symbol(ts) ==
                 IF ts = <<>> THEN <<>>
                 ELSE Keep(date_position(SymbolOrder[k], ts,
                                         fetch_historical_market_data(SymbolOrder[k],
                                                                      closes[SymbolOrder[k]])))
         IN  Symbol(SelectSeq(all_trades, LAMBDA t : /\ t.portfolio_name = portfolio_name
                                                     /\ t.symbol = SymbolOrder[k]
                                                     /\ t.trade_date <= snapshot_date))
                 \o get_portfolio_positions_for_date(all_trades, portfolio_name,
                                                     snapshot_date, closes, k + 1)

\* the provider has no close for any symbol
NoCloses == [s \in Symbols |-> 0]

\* the document create_simple_daily_snapshot inserts for a position
snapshot_data(id, portfolio_name, snapshot_date, position, t) ==
    [_id |-> id,
     portfolio_name |-> portfolio_name,
     symbol |-> position.symbol,
     snapshot_date |-> snapshot_date,
     position_quantity |-> position.position_quantity,
     average_cost |-> position.average_cost,
     current_price |-> position.current_price,
     market_value |-> position.market_value,
     inception_pl |-> position.inception_pl,
     created_at |-> t]

\* a snapshot call that returns in this step without having been disturbed
\* counts as completed for its portfolio and date
NoteCompleted ==
    completed' = completed \cup
        {<<req'[c].portfolio_name, req'[c].snapshot_date>> :
            c \in {x \in Clients : /\ req[x].pc # "done"
                                   /\ req'[x].op = "create"
                                   /\ req'[x].pc = "done"
                                   /\ req'[x].clean}}

\* the body of the loop over the portfolios, up to its first await on the
\* prices or the store; after the last portfolio the loop is over
StartPortfolio(c, r, portfolios, closes) ==
    IF portfolios = <<>>
    THEN /\ req' = [req EXCEPT ![c] =
                       SnapshotLoop([r EXCEPT !.portfolios = <<>>, !.rows = <<>>, !.i = 1])]
         /\ next_round' = next_round
    ELSE LET r1 == [r EXCEPT !.portfolios = Tail(portfolios),
                             !.visited = Append(@, Head(portfolios)),
                             !.portfolio_name = Head(portfolios),
                             !.rows = <<>>, !.positions = <<>>, !.all_prices = <<>>]
         IN  IF r.snapshot_date = today
             THEN StartPositions(c, r1, Head(portfolios), TRUE)
             ELSE /\ req' = [req EXCEPT ![c] =
                                PositionsReturn(r1, get_portfolio_positions_for_date(
                                                        trades, Head(portfolios),
                                                        r.snapshot_date, closes, 1))]
                  /\ next_round' = next_round

\* POST /enhanced-snapshots/create for one portfolio, up to its first await
\* on the store.  Today's snapshot values the positions get_portfolio_positions
\* returns; called without its force_fresh argument that function sees the
\* Query default object, which is true in a condition, and takes the batch
\* path.  A snapshot of another date values the positions of that date at
\* the closes of that date.
CallCreate(c, portfolio_name, snapshot_date, closes) ==
    /\ req[c].op = "idle"
    /\ next_id <= MaxId
    /\ LET r0 == [Idle EXCEPT !.op = "create", !.ret = "create",
                              !.portfolio_name = portfolio_name,
                              !.snapshot_date = snapshot_date,
                              !.repeat = <<portfolio_name, snapshot_date>> \in completed,
                              !.call_time = now, !.trades_seen = trades]
       IN  IF snapshot_date = today
           THEN StartPositions(c, r0, portfolio_name, TRUE)
           ELSE /\ req' = [req EXCEPT ![c] =
                             PositionsReturn(r0, get_portfolio_positions_for_date(
                                                     trades, portfolio_name, snapshot_date, closes, 1))]
                /\ next_round' = next_round
    /\ NoteCompleted
    /\ UNCHANGED <<trades, daily_snapshots, next_id, today, now, cache, scheduled_tasks, task_counter>>

\* (variant: the insert follows whatever the existence check finds)
CrFind_unchecked(c) ==
    /\ req[c].pc = "cr_find"
    /\ req' = [req EXCEPT ![c] = [req[c] EXCEPT !.pc = "cr_insert"]]
    /\ NoteCompleted
    /\ UNCHANGED <<trades, daily_snapshots, next_id, today, now, cache, next_round, scheduled_tasks, task_counter>>

\* existing_snapshot = await find_one({portfolio_name, symbol, snapshot_date})
CrFind(c) ==
    /\ req[c].pc = "cr_find"
    /\ LET r == req[c]
           existing_snapshot == find_one_exact(daily_snapshots, r.portfolio_name,
                                               r.rows[r.i].symbol, r.snapshot_date)
       IN  req' = [req EXCEPT ![c] =
                      IF existing_snapshot = None
                      THEN [r EXCEPT !.pc = "cr_insert"]
                      ELSE SnapshotLoop([r EXCEPT !.i = @ + 1])]
    /\ NoteCompleted
    /\ UNCHANGED <<trades, daily_snapshots, next_id, today, now, cache, next_round, scheduled_tasks, task_counter>>

\* await insert_one(snapshot_data); snapshots_created += 1
CrInsert(c) ==
    /\ req[c].pc = "cr_insert"
    /\ LET r == req[c]
       IN  /\ daily_snapshots' =
                  Append(daily_snapshots,
                         snapshot_data(next_id, r.portfolio_name, r.snapshot_date, r.rows[r.i], now))
           /\ req' = [req EXCEPT ![c] =
                         SnapshotLoop([r EXCEPT !.i = @ + 1,
                                                !.snapshots_created = @ + 1,
                                                !.inserted = @ \cup {next_id}])]
    /\ next_id' = next_id + 1
    /\ NoteCompleted
    /\ UNCHANGED <<trades, today, now, cache, next_round, scheduled_tasks, task_counter>>

\* find_one or insert_one raises (the store is unreachable): nothing is
\* written, the exception is caught in the loop over the portfolios
CrRaise(c) ==
    /\ req[c].pc \in {"cr_find", "cr_insert"}
    /\ req' = [req EXCEPT ![c] = EndPortfolio(req[c])]
    /\ NoteCompleted
    /\ UNCHANGED <<trades, daily_snapshots, next_id, today, now, cache, next_round, scheduled_tasks, task_counter>>

\* POST /enhanced-snapshots/create without a portfolio name, up to the await
\* on the list of the portfolios
CallCreateAll(c, snapshot_date) ==
    /\ req[c].op = "idle"
    /\ next_id <= MaxId
    /\ req' = [req EXCEPT ![c] = [Idle EXCEPT !.op = "create_all", !.ret = "create",
                                              !.pc = "cr_list",
                                              !.snapshot_date = snapshot_date,
                                              !.call_time = now]]
    /\ UNCHANGED <<trades, daily_snapshots, completed, next_id, today, now, cache, next_round, scheduled_tasks, task_counter>>

\* for portfolio in portfolios: the next portfolio
CrNext(c, closes) ==
    /\ req[c].pc = "cr_next"
    /\ StartPortfolio(c, req[c], req[c].portfolios, closes)
    /\ UNCHANGED <<trades, daily_snapshots, completed, next_id, today, now, cache, scheduled_tasks, task_counter>>

\* (variant: the snapshots of earlier dates go too)
delete_snapshots_through_date(store, snapshot_date) ==
    SelectSeq(store, LAMBDA x : x.snapshot_date > snapshot_date)

\* delete_many({snapshot_date}): what is left of the collection
delete_snapshots_by_date(store, snapshot_date) ==
    SelectSeq(store, LAMBDA x : x.snapshot_date # snapshot_date)

\* DELETE /enhanced-snapshots/delete-by-date
DeleteByDate(snapshot_date) ==
    /\ daily_snapshots' = delete_snapshots_by_date(daily_snapshots, snapshot_date)
    /\ completed' = {}
    /\ req' = Disturb(req)
    /\ UNCHANGED <<trades, next_id, today, now, cache, next_round, scheduled_tasks, task_counter>>

\* delete_many({snapshot_date: {$lt: cutoff_date}}): what is left
cleanup_old_snapshots(store, tdy, days_to_keep) ==
    SelectSeq(store, LAMBDA x : ~(x.snapshot_date < tdy - days_to_keep))

\* POST /enhanced-snapshots/cleanup.  cutoff_date is a datetime.date, which
\* the driver's default codec does not encode: the call then raises and
\* nothing is removed; with a codec that encodes dates the documents older
\* than the cutoff are removed.
Cleanup(days_to_keep) ==
    \/ UNCHANGED vars
    \/ /\ daily_snapshots' =
              cleanup_old_snapshots(daily_snapshots, today,
                                    IF days_to_keep < 30 THEN 30 ELSE days_to_keep)
       /\ completed' = {}
       /\ req' = Disturb(req)
       /\ UNCHANGED <<trades, next_id, today, now, cache, next_round, scheduled_tasks, task_counter>>

----------------------------------------------------------------------------
(* TaskScheduler: SimpleScheduler.  A task id is "task_<counter>_<time>";   *)
(* the counter alone tells ids apart and stands for the id.  An Optional    *)
(* datetime or message is None or Some(value); portfolio_name "" stands for *)
(* None, which `if portfolio_name` treats alike.                            *)

MaxTasks == 2

Some(v) == [value |-> v]

ScheduledTask(task_id, task_type, portfolio_name, scheduled_time, status, created_at) ==
    [task_id |-> task_id, task_type |-> task_type, portfolio_name |-> portfolio_name,
     scheduled_time |-> scheduled_time, status |-> status, created_at |-> created_at,
     completed_at |-> None, error_message |-> None]

\* self.scheduled_tasks[task_id] = task
Put(d, k, v) == [x \in DOMAIN d \cup {k} |-> IF x = k THEN v ELSE d[x]]

\* timedelta(minutes=m), timedelta(hours=h) in seconds
Minutes(m) == 60 * m
Hours(h) == 3600 * h

\* (variant: the id of the newest task is used again)
Schedule_reuse_id(portfolio_name, delay_minutes) ==
    /\ task_counter < MaxTasks
    /\ task_counter' = task_counter + 1
    /\ LET task_id == IF task_counter = 0 THEN 1 ELSE task_counter
       IN  scheduled_tasks' =
               Put(scheduled_tasks, task_id,
                   ScheduledTask(task_id, "daily_snapshots", portfolio_name,
                                 IF delay_minutes > 0 THEN now + Minutes(delay_minutes) ELSE now,
                                 "pending", now))
    /\ UNCHANGED <<trades, daily_snapshots, completed, next_id, today, now, cache, next_round, req>>

\* schedule_daily_snapshots(portfolio_name, delay_minutes); it never suspends
Schedule(portfolio_name, delay_minutes) ==
    /\ task_counter < MaxTasks
    /\ task_counter' = task_counter + 1
    /\ LET task_id == task_counter + 1
       IN  scheduled_tasks' =
               Put(scheduled_tasks, task_id,
                   ScheduledTask(task_id, "daily_snapshots", portfolio_name,
                                 IF delay_minutes > 0 THEN now + Minutes(delay_minutes) ELSE now,
                                 "pending", now))
    /\ UNCHANGED <<trades, daily_snapshots, completed, next_id, today, now, cache, next_round, req>>

\* simulate_daily_schedule(portfolio_name)
Simulate(portfolio_name) ==
    /\ task_counter < MaxTasks
    /\ task_counter' = task_counter + 1
    /\ scheduled_tasks' =
           Put(scheduled_tasks, task_counter + 1,
               ScheduledTask(task_counter + 1, "daily_snapshots_simulation", portfolio_name,
                             now, "pending", now))
    /\ UNCHANGED <<trades, daily_snapshots, completed, next_id, today, now, cache, next_round, req>>

\* clear_completed_tasks(older_than_hours): what is left of scheduled_tasks
clear_completed_tasks(tasks, older_than_hours, t) ==
    LET tasks_to_remove ==
            {task_id \in DOMAIN tasks :
                /\ tasks[task_id].status \in {"completed", "failed"}
                /\ tasks[task_id].completed_at # None
                /\ tasks[task_id].completed_at.value < t - Hours(older_than_hours)}
    IN  [task_id \in DOMAIN tasks \ tasks_to_remove |-> tasks[task_id]]

Clear(older_than_hours) ==
    /\ scheduled_tasks' = clear_completed_tasks(scheduled_tasks, older_than_hours, now)
    /\ UNCHANGED <<trades, daily_snapshots, completed, next_id, today, now, cache, next_round, req,
                   task_counter>>

\* the ids of the pending tasks, in the order of the dict
RECURSIVE PendingFrom(_, _, _)
PendingFrom(tasks, k, last) ==
    IF k > last THEN <<>>
    ELSE (IF k \in DOMAIN tasks /\ tasks[k].status = "pending" THEN <<k>> ELSE <<>>)
             \o PendingFrom(tasks, k + 1, last)

\* except Exception: the task is marked failed
Failed(task, message, t) ==
    [task EXCEPT !.status = "failed", !.error_message = Some(message), !.completed_at = Some(t)]

\* run_scheduled_task for the ids of queue in turn, as far as it goes without
\* suspending: an unknown id raises, a completed or running task returns at
\* once, a task of an unknown type fails at once; it stops at the first task
\* whose snapshot call has to be awaited
\* (variant: a task that is running is started again)
RECURSIVE Drain_no_running_check(_, _, _, _)
Drain_no_running_check(tasks, queue, results, t) ==
    IF queue = <<>> THEN [tasks |-> tasks, queue |-> queue, results |-> results, raised |-> FALSE]
    ELSE IF Head(queue) \notin DOMAIN tasks
    THEN [tasks |-> tasks, queue |-> queue, results |-> results, raised |-> TRUE]
    ELSE IF tasks[Head(queue)].status = "completed"
    THEN Drain_no_running_check(tasks, Tail(queue),
               Append(results, [task_id |-> Head(queue), status |-> "already_completed"]), t)
    ELSE IF tasks[Head(queue)].task_type = "daily_snapshots"
    THEN [tasks |-> tasks, queue |-> queue, results |-> results, raised |-> FALSE]
    ELSE Drain_no_running_check([tasks EXCEPT ![Head(queue)] = Failed(@, "Unknown task type", t)], Tail(queue),
               Append(results, [task_id |-> Head(queue), status |-> "failed",
                                error |-> "Unknown task type"]), t)

RECURSIVE Drain(_, _, _, _)
Drain(tasks, queue, results, t) ==
    IF queue = <<>> THEN [tasks |-> tasks, queue |-> queue, results |-> results, raised |-> FALSE]
    ELSE IF Head(queue) \notin DOMAIN tasks
    THEN [tasks |-> tasks, queue |-> queue, results |-> results, raised |-> TRUE]
    ELSE IF tasks[Head(queue)].status = "completed"
    THEN Drain(tasks, Tail(queue),
               Append(results, [task_id |-> Head(queue), status |-> "already_completed"]), t)
    ELSE IF tasks[Head(queue)].status = "running"
    THEN Drain(tasks, Tail(queue),
               Append(results, [task_id |-> Head(queue), status |-> "already_running"]), t)
    ELSE IF tasks[Head(queue)].task_type = "daily_snapshots"
    THEN [tasks |-> tasks, queue |-> queue, results |-> results, raised |-> FALSE]
    ELSE Drain([tasks EXCEPT ![Head(queue)] = Failed(@, "Unknown task type", t)], Tail(queue),
               Append(results, [task_id |-> Head(queue), status |-> "failed",
                                error |-> "Unknown task type"]), t)

\* the answer of the call: run_scheduled_task returns one result,
\* run_all_pending_tasks the list of them
RunResult(r, results) == IF r.runner = "run" THEN results[1] ELSE results

\* the call r goes on with its queue until it has to wait or is through.  A
\* task to be awaited is marked running and create_simple_daily_snapshot
\* begins: with a portfolio name at the positions of that portfolio, without
\* one at the list of the portfolios.
Continue(c, r, tasks) ==
    LET Go(d) ==
            IF d.raised
            THEN /\ scheduled_tasks' = d.tasks
                 /\ req' = [req EXCEPT ![c] =
                               Done([r EXCEPT !.queue = d.queue, !.results = d.results],
                                    [error |-> "Task not found"])]
                 /\ next_round' = next_round
            ELSE IF d.queue = <<>>
            THEN /\ scheduled_tasks' = d.tasks
                 /\ req' = [req EXCEPT ![c] =
                               Done([r EXCEPT !.queue = d.queue, !.results = d.results],
                                    RunResult(r, d.results))]
                 /\ next_round' = next_round
            ELSE LET task == d.tasks[Head(d.queue)]
                     r1 == [Idle EXCEPT !.op = r.op, !.ret = "create", !.runner = r.runner,
                                        !.asked = r.asked, !.queue = d.queue,
                                        !.results = d.results, !.task = Head(d.queue),
                                        !.snapshot_date = today]
                 IN  /\ scheduled_tasks' = [d.tasks EXCEPT ![Head(d.queue)].status = "running"]
                     /\ IF task.portfolio_name = ""
                        THEN /\ req' = [req EXCEPT ![c] = [r1 EXCEPT !.pc = "cr_list"]]
                             /\ next_round' = next_round
                        ELSE StartPositions(c, r1, task.portfolio_name, TRUE)
    IN  Go(Drain(tasks, r.queue, r.results, now))

\* POST /scheduler/run-task/{task_id}
CallRun(c, task_id) ==
    /\ req[c].op = "idle"
    /\ Continue(c, [Idle EXCEPT !.op = "run", !.runner = "run",
                                !.queue = <<task_id>>, !.asked = <<task_id>>],
                scheduled_tasks)
    /\ UNCHANGED <<trades, daily_snapshots, completed, next_id, today, now, cache, task_counter>>

\* run_all_pending_tasks, started by POST /scheduler/run-all-pending
CallRunAll(c) ==
    /\ req[c].op = "idle"
    /\ LET pending_tasks == PendingFrom(scheduled_tasks, 1, task_counter)
       IN  Continue(c, [Idle EXCEPT !.op = "run_all", !.runner = "run_all",
                                    !.queue = pending_tasks, !.asked = pending_tasks],
                    scheduled_tasks)
    /\ UNCHANGED <<trades, daily_snapshots, completed, next_id, today, now, cache, task_counter>>

\* the task of the call is over: its result joins the results and the call
\* goes on with the rest of its queue
FinishTask(c, task, result) ==
    Continue(c, [req[c] EXCEPT !.queue = Tail(@), !.results = Append(@, result)],
             [scheduled_tasks EXCEPT ![req[c].task] = task])

\* create_simple_daily_snapshot has returned to run_scheduled_task
RunReturn(c) ==
    /\ req[c].pc = "run_return"
    /\ FinishTask(c, [scheduled_tasks[req[c].task] EXCEPT !.status = "completed",
                                                          !.completed_at = Some(now)],
                  [task_id |-> req[c].task, status |-> "completed",
                   snapshots_created |-> req[c].snapshots_created])
    /\ UNCHANGED <<trades, daily_snapshots, completed, next_id, today, now, cache, task_counter>>

\* portfolios = await cursor.to_list(): the list of the portfolios, or the
\* database raises: the task fails, or the endpoint answers with an error
\* (failed then names the list, not a portfolio)
CrList(c, portfolios, closes) ==
    /\ req[c].pc = "cr_list"
    /\ \/ /\ StartPortfolio(c, [req[c] EXCEPT !.listed = portfolios], portfolios, closes)
          /\ UNCHANGED scheduled_tasks
       \/ IF req[c].runner = ""
          THEN /\ req' = [req EXCEPT ![c] = Done([req[c] EXCEPT !.failed = {"portfolios"}],
                                                  [error |-> "database error"])]
               /\ UNCHANGED <<next_round, scheduled_tasks>>
          ELSE FinishTask(c, Failed(scheduled_tasks[req[c].task], "database error", now),
                          [task_id |-> req[c].task, status |-> "failed",
                           error |-> "database error"])
    /\ UNCHANGED <<trades, daily_snapshots, completed, next_id, today, now, cache, task_counter>>

\* SimpleScheduler.get_task_status: None for an id that is not in the map
get_task_status(tasks, task_id) ==
    IF task_id \notin DOMAIN tasks THEN None
    ELSE [task_id |-> tasks[task_id].task_id,
          task_type |-> tasks[task_id].task_type,
          portfolio_name |-> tasks[task_id].portfolio_name,
          scheduled_time |-> tasks[task_id].scheduled_time,
          status |-> tasks[task_id].status,
          created_at |-> tasks[task_id].created_at,
          completed_at |-> tasks[task_id].completed_at,
          error_message |-> tasks[task_id].error_message]

HTTPException(status_code, detail) == [status_code |-> status_code, detail |-> detail]

\* GET /scheduler/task-status/{task_id}.  The HTTPException the handler
\* raises for a miss is raised inside its try, whose except Exception
\* catches it and raises the answer of an internal error instead.
CallTaskStatus(c, task_id) ==
    /\ req[c].op = "idle"
    /\ LET Answer(status) ==
               LET raised == IF status = None THEN HTTPException(404, "Task not found")
                             ELSE None
               IN  IF raised # None
                   THEN HTTPException(500, "Error retrieving task status")
                   ELSE [status_code |-> 200, data |-> status]
       IN  req' = [req EXCEPT ![c] =
                      Done([Idle EXCEPT !.op = "status", !.ret = "top", !.asked = <<task_id>>],
                           Answer(get_task_status(scheduled_tasks, task_id)))]
    /\ UNCHANGED <<trades, daily_snapshots, completed, next_id, today, now, cache, next_round, scheduled_tasks, task_counter>>

----------------------------------------------------------------------------
(* Attribution: calculate_dtd_mtd_ytd_pl_simple *)

\* the snapshot lookups of one position and what the loop body makes of them:
\* the row, and the unrounded figures that go into portfolio_totals
position_analysis(store, tdy, portfolio_name, position) ==
    LET OrLatest(snapshot, d) ==
            IF snapshot = None
            THEN find_one_lte(store, portfolio_name, position.symbol, d)
            ELSE snapshot
        \* the fallback of the day-to-date lookup: most recent before today
        OrBeforeToday(snapshot) ==
            IF snapshot = None
            THEN find_one_lt(store, portfolio_name, position.symbol, tdy)
            ELSE snapshot
        Body(previous_trading_day, last_trading_day_of_previous_month,
             last_trading_day_of_previous_year, previous_trading_day_snapshot,
             last_working_day_snapshot, month_end_snapshot, year_end_snapshot) ==
            [dtd_pl |-> RSub(position.inception_pl, PlOf(last_working_day_snapshot)),
             mtd_pl |-> RSub(position.inception_pl, PlOf(month_end_snapshot)),
             ytd_pl |-> RSub(position.inception_pl, PlOf(year_end_snapshot)),
             current_inception_pl |-> position.inception_pl,
             previous_trading_day_pl |-> PlOf(last_working_day_snapshot),
             last_trading_day_of_previous_month_pl |-> PlOf(month_end_snapshot),
             last_trading_day_of_previous_year_pl |-> PlOf(year_end_snapshot),
             row |->
                 [portfolio_name |-> portfolio_name,
                  symbol |-> position.symbol,
                  current_inception_pl |-> Round2(position.inception_pl),
                  dtd_pl |-> Round2(RSub(position.inception_pl, PlOf(last_working_day_snapshot))),
                  mtd_pl |-> Round2(RSub(position.inception_pl, PlOf(month_end_snapshot))),
                  ytd_pl |-> Round2(RSub(position.inception_pl, PlOf(year_end_snapshot))),
                  analysis_date |-> tdy,
                  previous_trading_day |-> previous_trading_day,
                  last_trading_day_of_previous_month |-> last_trading_day_of_previous_month,
                  last_trading_day_of_previous_year |-> last_trading_day_of_previous_year,
                  has_previous_trading_day_snapshot |-> previous_trading_day_snapshot # None,
                  has_last_working_day_snapshot |-> last_working_day_snapshot # None,
                  last_working_day |-> IF last_working_day_snapshot # None
                                       THEN last_working_day_snapshot.snapshot_date
                                       ELSE None,
                  has_month_end_snapshot |-> month_end_snapshot # None,
                  has_year_end_snapshot |-> year_end_snapshot # None]]
        Exact(previous_trading_day, last_trading_day_of_previous_month,
              last_trading_day_of_previous_year, previous_trading_day_snapshot) ==
            Body(previous_trading_day, last_trading_day_of_previous_month,
                 last_trading_day_of_previous_year, previous_trading_day_snapshot,
                 OrBeforeToday(previous_trading_day_snapshot),
                 OrLatest(find_one_exact(store, portfolio_name, position.symbol,
                                         last_trading_day_of_previous_month),
                          last_trading_day_of_previous_month),
                 OrLatest(find_one_exact(store, portfolio_name, position.symbol,
                                         last_trading_day_of_previous_year),
                          last_trading_day_of_previous_year))
        Dates(previous_trading_day, last_trading_day_of_previous_month,
              last_trading_day_of_previous_year) ==
            Exact(previous_trading_day, last_trading_day_of_previous_month,
                  last_trading_day_of_previous_year,
                  find_one_exact(store, portfolio_name, position.symbol, previous_trading_day))
    IN  Dates(_get_previous_trading_day(tdy),
              _get_last_trading_day_of_previous_month(tdy),
              _get_last_trading_day_of_previous_year(tdy))

\* (variant: each position overwrites the totals of the positions before it)
AddTotals_last_only(portfolio_totals, a) ==
    [dtd_pl |-> a.dtd_pl, mtd_pl |-> a.mtd_pl, ytd_pl |-> a.ytd_pl,
     current_total_pl |-> a.current_inception_pl,
     previous_trading_day_total_pl |-> a.previous_trading_day_pl,
     last_trading_day_of_previous_month_total_pl |-> a.last_trading_day_of_previous_month_pl,
     last_trading_day_of_previous_year_total_pl |-> a.last_trading_day_of_previous_year_pl]

\* portfolio_totals[...] += ...
AddTotals(portfolio_totals, a) ==
    [dtd_pl |-> RAdd(portfolio_totals.dtd_pl, a.dtd_pl),
     mtd_pl |-> RAdd(portfolio_totals.mtd_pl, a.mtd_pl),
     ytd_pl |-> RAdd(portfolio_totals.ytd_pl, a.ytd_pl),
     current_total_pl |-> RAdd(portfolio_totals.current_total_pl, a.current_inception_pl),
     previous_trading_day_total_pl |->
         RAdd(portfolio_totals.previous_trading_day_total_pl, a.previous_trading_day_pl),
     last_trading_day_of_previous_month_total_pl |->
         RAdd(portfolio_totals.last_trading_day_of_previous_month_total_pl,
              a.last_trading_day_of_previous_month_pl),
     last_trading_day_of_previous_year_total_pl |->
         RAdd(portfolio_totals.last_trading_day_of_previous_year_total_pl,
              a.last_trading_day_of_previous_year_pl)]

\* GET /enhanced-snapshots/dtd-mtd-ytd/{portfolio_name}, up to the await on
\* the batch of prices; symbol = "" stands for no filter
CallAttribution(c, portfolio_name, symbol) ==
    /\ req[c].op = "idle"
    /\ StartPositions(c, [Idle EXCEPT !.op = "attr", !.ret = "attr", !.filter = symbol],
                      portfolio_name, TRUE)
    /\ UNCHANGED <<trades, daily_snapshots, completed, next_id, today, now, cache, scheduled_tasks, task_counter>>

\* one pass of the loop body; the lookups of one position are taken as one read
AttrRow(c) ==
    /\ req[c].pc = "attr_row"
    /\ LET r == req[c]
           Step(a) == AttributionLoop([r EXCEPT !.analysis = Append(@, a.row),
                                                !.totals = AddTotals(@, a),
                                                !.i = @ + 1], today)
       IN  req' = [req EXCEPT ![c] =
                      Step(position_analysis(daily_snapshots, today, r.portfolio_name, r.todo[r.i]))]
    /\ UNCHANGED <<trades, daily_snapshots, completed, next_id, today, now, cache, next_round, scheduled_tasks, task_counter>>

----------------------------------------------------------------------------
(* Initial state and inputs *)

Trade(portfolio_name, symbol, trade_type, quantity, executed_price, brokerage, trade_date) ==
    [portfolio_name |-> portfolio_name, symbol |-> symbol, instrument_type |-> "STOCK",
     trade_type |-> trade_type, quantity |-> quantity,
     executed_price |-> RInt(executed_price), brokerage |-> RInt(brokerage),
     trade_date |-> trade_date]

Today0 == Date(2025, 3, 10)

Init ==
    /\ trades = <<>>
    /\ daily_snapshots = <<>>
    /\ completed = {}
    /\ next_id = 1
    /\ today = Today0
    /\ now = 0
    /\ cache = EmptyCache
    /\ next_round = 0
    /\ req = [c \in Clients |-> Idle]
    /\ scheduled_tasks = <<>>
    /\ task_counter = 0

InfoRegular == Info("ok", 12, 0, 0)
InfoPre == Info("ok", 12, 20, 15)
InfoPost == Info("ok", 12, 0, 15)

----------------------------------------------------------------------------
(* SpecLedger: one portfolio, one symbol, every short trade history *)

LedgerDate == Date(2025, 3, 3)

LedgerMenu ==
    {Trade("P1", "AAPL", "BUY", 10, 10, 0, LedgerDate),
     Trade("P1", "AAPL", "BUY", 10, 12, 0, LedgerDate),
     Trade("P1", "AAPL", "BUY", 5, 12, 3, LedgerDate),
     Trade("P1", "AAPL", "SELL", 15, 20, 0, LedgerDate),
     Trade("P1", "AAPL", "SELL", 5, 20, 3, LedgerDate)}

LedgerInfos == {InfoEmpty, InfoRegular, InfoPre}

NextLedger ==
    \/ \E t \in LedgerMenu : AddTrade(t)
    \/ \E ff \in BOOLEAN : CallPositions("c1", "P1", ff)
    \/ BatchDone("c1", LedgerInfos)
    \/ \E info \in LedgerInfos : YahooDone("c1", info)
    \/ PosRow("c1")
    \/ Return("c1")

SpecLedger == Init /\ [][NextLedger]_vars

----------------------------------------------------------------------------
(* C1: FIFO lot matching *)

\* The ledger told share by share: every share bought joins the end of a
\* queue with its own cost, every share sold leaves from the front of the
\* queue and realizes the sale price minus its cost; shares sold while the
\* queue is empty match nothing.
RECURSIVE SumSeq(_)
SumSeq(q) == IF q = <<>> THEN RZero ELSE RAdd(Head(q), SumSeq(Tail(q)))

Copies(n, x) == [k \in 1..n |-> x]

Min(a, b) == IF a <= b THEN a ELSE b

RECURSIVE ShareLedger(_, _, _)
ShareLedger(ts, shares, realized) ==
    IF ts = <<>> THEN [shares |-> shares, realized |-> realized]
    ELSE LET t == Head(ts)
             k == Min(t.quantity, Len(shares))
         IN  IF t.trade_type = "BUY"
             THEN ShareLedger(Tail(ts),
                              shares \o Copies(t.quantity,
                                               RAdd(t.executed_price,
                                                    RDiv(t.brokerage, RInt(t.quantity)))),
                              realized)
             ELSE ShareLedger(Tail(ts),
                              SubSeq(shares, k + 1, Len(shares)),
                              RAdd(realized,
                                   RSub(RMul(RInt(k), t.executed_price),
                                        SumSeq(SubSeq(shares, 1, k)))))

RECURSIVE SharesOfLots(_)
SharesOfLots(buy_lots) ==
    IF buy_lots = <<>> THEN <<>>
    ELSE Copies(buy_lots[1][1], RAdd(buy_lots[1][2], buy_lots[1][3]))
             \o SharesOfLots(Tail(buy_lots))

FifoExample ==
    <<Trade("P1", "AAPL", "BUY", 10, 10, 0, LedgerDate),
      Trade("P1", "AAPL", "BUY", 10, 12, 0, LedgerDate),
      Trade("P1", "AAPL", "SELL", 15, 20, 0, LedgerDate)>>

\* C1: for every trade history of a symbol the lots left open and the realized
\* P&L are those of selling the oldest shares first, no lot is left empty, and
\* BUY 10@10, BUY 10@12, SELL 15@20 leaves quantity 5 at average cost 12 with
\* realized P&L 140.
C1_FifoOldestFirst ==
    LET ts == TradesOf(trades, "P1", "AAPL")
        st == ProcessTrades(ts, FifoInit)
        ref == ShareLedger(ts, <<>>, RZero)
        position == calculate_fifo_position(trades, "P1", "AAPL", "STOCK")
    IN  /\ st.realized_pl = ref.realized
        /\ SharesOfLots(st.buy_lots) = ref.shares
        /\ \A k \in 1..Len(st.buy_lots) : st.buy_lots[k][1] > 0
        /\ trades = FifoExample =>
               /\ position # None
               /\ position.position_quantity = 5
               /\ position.average_cost = RInt(12)
               /\ position.realized_pl = RInt(140)
        /\ \A c \in Clients :
               (req[c].op = "positions" /\ req[c].pc = "done" /\ req[c].trades_seen = FifoExample) =>
                   /\ Len(req[c].result) = 1
                   /\ req[c].result[1].position_quantity = 5
                   /\ req[c].result[1].average_cost = RInt(12)

\* a positions() request over the example history has answered
C1_Witness ==
    /\ trades = FifoExample
    /\ req["c1"].op = "positions"
    /\ req["c1"].pc = "done"
    /\ req["c1"].trades_seen = FifoExample
    /\ Len(req["c1"].result) = 1

----------------------------------------------------------------------------
(* C7: inception P&L of a positions() row *)

\* all-time cost of the BUY trades: quantity * price + brokerage
RECURSIVE BoughtCost(_)
BoughtCost(ts) ==
    IF ts = <<>> THEN RZero
    ELSE RAdd(IF Head(ts).trade_type = "BUY"
              THEN RAdd(RMul(RInt(Head(ts).quantity), Head(ts).executed_price), Head(ts).brokerage)
              ELSE RZero,
              BoughtCost(Tail(ts)))

\* all-time proceeds of the SELL trades: quantity * price - brokerage
RECURSIVE SoldProceeds(_)
SoldProceeds(ts) ==
    IF ts = <<>> THEN RZero
    ELSE RAdd(IF Head(ts).trade_type = "SELL"
              THEN RSub(RMul(RInt(Head(ts).quantity), Head(ts).executed_price), Head(ts).brokerage)
              ELSE RZero,
              SoldProceeds(Tail(ts)))

RECURSIVE SoldQuantityWithin(_, _)
SoldQuantityWithin(ts, open) ==
    IF ts = <<>> THEN TRUE
    ELSE IF Head(ts).trade_type = "BUY"
    THEN SoldQuantityWithin(Tail(ts), open + Head(ts).quantity)
    ELSE Head(ts).quantity <= open /\ SoldQuantityWithin(Tail(ts), open - Head(ts).quantity)

\* no brokerage on any trade and no SELL beyond the open quantity
ExactCostTracking(ts) ==
    /\ \A k \in 1..Len(ts) : ts[k].brokerage = RZero
    /\ SoldQuantityWithin(ts, 0)

\* C7: every row a positions() request returns has inception_pl = market_value
\* + all-time sold proceeds - all-time bought cost, which is realized_pl +
\* unrealized_pl when there is no brokerage and no oversell.
C7_InceptionAllTime ==
    \A c \in Clients :
        (req[c].op = "positions" /\ req[c].pc = "done") =>
            \A k \in 1..Len(req[c].result) :
                LET row == req[c].result[k]
                    all == req[c].trades_seen
                    ts == TradesOf(all, row.portfolio_name, row.symbol)
                    position == calculate_fifo_position(all, row.portfolio_name, row.symbol,
                                                        row.instrument_type)
                    price == IF row.price_data # None THEN row.price_data.price
                             ELSE position.average_cost
                    market_value == RMul(RInt(row.position_quantity), price)
                    inception == RSub(RAdd(market_value, SoldProceeds(ts)), BoughtCost(ts))
                    unrealized == RSub(market_value, position.net_cost)
                IN  /\ row.inception_pl = Round2(inception)
                    /\ ExactCostTracking(ts) =>
                           inception = RAdd(position.realized_pl, unrealized)

----------------------------------------------------------------------------
(* The price service under concurrent requests *)

PriceDate == Date(2025, 3, 3)

\* portfolio P1 holds two stocks and cash
PriceTrades ==
    <<Trade("P1", "AAPL", "BUY", 10, 10, 0, PriceDate),
      Trade("P1", "CASH_USD", "BUY", 100, 1, 0, PriceDate),
      Trade("P1", "MSFT", "BUY", 5, 12, 0, PriceDate)>>

InitPrice ==
    /\ trades = PriceTrades
    /\ daily_snapshots = <<>>
    /\ completed = {}
    /\ next_id = 1
    /\ today = Today0
    /\ now = 0
    /\ cache = EmptyCache
    /\ next_round = 0
    /\ req = [c \in Clients |-> Idle]
    /\ scheduled_tasks = <<>>
    /\ task_counter = 0

PriceInfos == {InfoError, InfoRegular}

\* the symbol lists of the batch requests (positions(force_fresh=true) of a
\* portfolio without open positions passes the empty list)
BatchMenu == {<<>>, <<"CASH_USD">>, <<"AAPL", "CASH_USD", "MSFT">>}

NextPrice ==
    \/ Tick
    \/ \E force_refresh \in BOOLEAN :
           \/ CallGetStockPrice("c1", "CASH_USD", force_refresh)
           \/ CallGetStockPrice("c2", "AAPL", force_refresh)
    \/ \E c \in Clients, info \in PriceInfos : YahooDone(c, info)
    \/ \E symbols \in BatchMenu : CallGetMultiplePrices("c1", symbols)
    \/ \E force_fresh \in BOOLEAN : CallPositions("c1", "P1", force_fresh)
    \/ BatchDone("c1", PriceInfos)
    \/ BatchError("c1")
    \/ PosRow("c1")
    \/ \E c \in Clients : Return(c)

SpecPrice == InitPrice /\ [][NextPrice]_vars

----------------------------------------------------------------------------
(* The snapshot store under concurrent calls *)

SnapTradeDate == Date(2025, 1, 2)

SnapTrades == <<Trade("P1", "AAPL", "BUY", 10, 10, 0, SnapTradeDate)>>

InitSnap ==
    /\ trades = SnapTrades
    /\ daily_snapshots = <<>>
    /\ completed = {}
    /\ next_id = 1
    /\ today = Today0
    /\ now = 0
    /\ cache = EmptyCache
    /\ next_round = 0
    /\ req = [c \in Clients |-> Idle]
    /\ scheduled_tasks = <<>>
    /\ task_counter = 0

\* the dates snapshots are asked for: today and a month end
SnapDates == {Today0, Date(2025, 1, 31)}

\* the closes of a past date
SnapCloses == {[s \in Symbols |-> 12]}

SnapInfos == {InfoRegular, InfoPre}

NextSnap ==
    \/ \E c \in Clients, d \in SnapDates, closes \in SnapCloses : CallCreate(c, "P1", d, closes)
    \/ \E c \in Clients : BatchDone(c, SnapInfos)
    \/ \E c \in Clients : PosRow(c)
    \/ \E c \in Clients : CrFind(c)
    \/ \E c \in Clients : CrInsert(c)
    \/ \E c \in Clients : Return(c)
    \/ \E d \in SnapDates : DeleteByDate(d)
    \/ Cleanup(30)

SpecSnap == InitSnap /\ [][NextSnap]_vars

\* a symbol bought twice and partly sold before both snapshot dates
PathTrades ==
    <<Trade("P1", "AAPL", "BUY", 10, 10, 0, SnapTradeDate),
      Trade("P1", "AAPL", "BUY", 10, 12, 0, SnapTradeDate),
      Trade("P1", "AAPL", "SELL", 15, 20, 0, SnapTradeDate)>>

InitPaths ==
    /\ trades = PathTrades
    /\ daily_snapshots = <<>>
    /\ completed = {}
    /\ next_id = 1
    /\ today = Today0
    /\ now = 0
    /\ cache = EmptyCache
    /\ next_round = 0
    /\ req = [c \in Clients |-> Idle]
    /\ scheduled_tasks = <<>>
    /\ task_counter = 0

\* the closes of the past date: the prices the provider quotes today
PathCloses == {[s \in Symbols |-> 12], [s \in Symbols |-> 20]}

NextPaths ==
    \/ \E d \in SnapDates, closes \in PathCloses : CallCreate("c1", "P1", d, closes)
    \/ BatchDone("c1", SnapInfos)
    \/ PosRow("c1")
    \/ CrFind("c1")
    \/ CrInsert("c1")
    \/ Return("c1")
    \/ \E d \in SnapDates : DeleteByDate(d)

SpecPaths == InitPaths /\ [][NextPaths]_vars

----------------------------------------------------------------------------
(* Attribution over stored snapshots, one request at a time *)

AttrTrades ==
    <<Trade("P1", "AAPL", "BUY", 10, 10, 0, Date(2024, 12, 2)),
      Trade("P1", "MSFT", "BUY", 5, 12, 0, Date(2025, 2, 3))>>

InitAttr ==
    /\ trades = AttrTrades
    /\ daily_snapshots = <<>>
    /\ completed = {}
    /\ next_id = 1
    /\ today = Today0
    /\ now = 0
    /\ cache = EmptyCache
    /\ next_round = 0
    /\ req = [c \in Clients |-> Idle]
    /\ scheduled_tasks = <<>>
    /\ task_counter = 0

\* today is Monday 2025-03-10: the year end, a day before the month end, the
\* previous trading day (a Friday) and the Saturday after it
AttrDates == {Date(2024, 12, 31), Date(2025, 2, 27), Date(2025, 3, 7), Date(2025, 3, 8)}

AttrCloses == {[s \in Symbols |-> 12], [s \in Symbols |-> 20]}

AttrInfos == {InfoRegular, InfoPre}

NextAttr ==
    \/ \E d \in AttrDates, closes \in AttrCloses : CallCreate("c1", "P1", d, closes)
    \/ CrFind("c1")
    \/ CrInsert("c1")
    \/ \E symbol \in {"", "AAPL", "TSLA"} : CallAttribution("c1", "P1", symbol)
    \/ BatchDone("c1", AttrInfos)
    \/ PosRow("c1")
    \/ AttrRow("c1")
    \/ Return("c1")

SpecAttr == InitAttr /\ [][NextAttr]_vars

----------------------------------------------------------------------------
(* Positions that open and close: two symbols, buys and sells *)

NetBuyDate == Date(2025, 1, 2)
NetSellDate == Date(2025, 2, 3)

\* AAPL can be bought, sold out and oversold; MSFT stays open
NetMenu ==
    {Trade("P1", "AAPL", "BUY", 10, 10, 0, NetBuyDate),
     Trade("P1", "AAPL", "SELL", 10, 20, 0, NetSellDate),
     Trade("P1", "AAPL", "SELL", 15, 20, 0, NetSellDate),
     Trade("P1", "MSFT", "BUY", 5, 12, 0, NetBuyDate)}

\* today and a date between the buys and the sells
NetDates == {Today0, Date(2025, 1, 31)}

NetInfos == {InfoRegular}

NextNet ==
    \/ \E t \in NetMenu : AddTrade(t)
    \/ \E force_fresh \in BOOLEAN : CallPositions("c1", "P1", force_fresh)
    \/ \E d \in NetDates, closes \in SnapCloses : CallCreate("c1", "P1", d, closes)
    \/ BatchDone("c1", NetInfos)
    \/ \E info \in NetInfos : YahooDone("c1", info)
    \/ PosRow("c1")
    \/ CrFind("c1")
    \/ CrInsert("c1")
    \/ Return("c1")

SpecNet == Init /\ [][NextNet]_vars

----------------------------------------------------------------------------
(* Attribution on every day of three years *)

\* date.today(): any day of 2024, 2025 or 2026
CalendarDays == Date(2024, 1, 1)..Date(2026, 12, 31)

InitCalendar ==
    /\ trades = AttrTrades
    /\ daily_snapshots = <<>>
    /\ completed = {}
    /\ next_id = 1
    /\ today \in CalendarDays
    /\ now = 0
    /\ cache = EmptyCache
    /\ next_round = 0
    /\ req = [c \in Clients |-> Idle]
    /\ scheduled_tasks = <<>>
    /\ task_counter = 0

CalendarInfos == {InfoRegular}

NextCalendar ==
    \/ \E symbol \in {"", "AAPL"} : CallAttribution("c1", "P1", symbol)
    \/ BatchDone("c1", CalendarInfos)
    \/ PosRow("c1")
    \/ AttrRow("c1")
    \/ Return("c1")

SpecCalendar == InitCalendar /\ [][NextCalendar]_vars

----------------------------------------------------------------------------
(* The scheduler under two callers *)

SchedInfos == {InfoRegular}

\* how far the clock runs here
MaxSchedTime == 1

\* c1 runs all pending tasks or the first task, c2 the second task
NextSched ==
    \/ now < MaxSchedTime /\ Tick
    \/ Schedule("P1", 0)
    \/ Schedule("", 1)
    \/ Simulate("P1")
    \/ \E older_than_hours \in {0, 1} : Clear(older_than_hours)
    \/ CallRun("c1", 1)
    \/ CallRun("c2", 2)
    \/ CallRunAll("c1")
    \/ \E c \in Clients : CrList(c, <<"P1">>, NoCloses)
    \/ \E c \in Clients : BatchDone(c, SchedInfos)
    \/ \E c \in Clients : PosRow(c)
    \/ \E c \in Clients : CrFind(c)
    \/ \E c \in Clients : CrInsert(c)
    \/ \E c \in Clients : RunReturn(c)
    \/ \E c \in Clients : Return(c)

SpecSched == InitSnap /\ [][NextSched]_vars

----------------------------------------------------------------------------
(* The scheduler under one caller *)

NextSchedule ==
    \/ now < MaxSchedTime /\ Tick
    \/ Schedule("P1", 0)
    \/ Schedule("", 1)
    \/ Simulate("P1")
    \/ \E older_than_hours \in {0, 1} : Clear(older_than_hours)
    \/ \E task_id \in 1..MaxTasks : CallRun("c1", task_id)
    \/ CallRunAll("c1")
    \/ CrList("c1", <<"P1">>, NoCloses)
    \/ BatchDone("c1", SchedInfos)
    \/ PosRow("c1")
    \/ CrFind("c1")
    \/ CrInsert("c1")
    \/ RunReturn("c1")
    \/ Return("c1")

SpecSchedule == InitSnap /\ [][NextSchedule]_vars

\* a second client asks for the status of tasks
\* both clients ask to run the same tasks
NextRace ==
    \/ Schedule("P1", 0)
    \/ Schedule("", 1)
    \/ \E c \in Clients, task_id \in 1..MaxTasks : CallRun(c, task_id)
    \/ \E c \in Clients : CrList(c, <<"P1">>, NoCloses)
    \/ \E c \in Clients : BatchDone(c, SchedInfos)
    \/ \E c \in Clients : PosRow(c)
    \/ \E c \in Clients : CrFind(c)
    \/ \E c \in Clients : CrInsert(c)
    \/ \E c \in Clients : RunReturn(c)
    \/ \E c \in Clients : Return(c)

SpecRace == InitSnap /\ [][NextRace]_vars

NextStatus ==
    \/ NextSchedule
    \/ \E task_id \in 1..MaxTasks : CallTaskStatus("c2", task_id)
    \/ Return("c2")

SpecStatus == InitSnap /\ [][NextStatus]_vars

----------------------------------------------------------------------------
(* Option definitions a client may send: what OptionModel accepts is an     *)
(* underlying of 1 to 10 characters, CALL or PUT, a strike above 0, a date  *)

OptionUnderlyings ==
    {<<"F">>, <<"A", "A", "P", "L">>, <<"a", "a", "p", "l">>,
     <<"G", "O", "O", "G", "L">>, <<"B", "R", "K", ".", "B">>,
     <<"G", "L", "O", "B", "E", "X">>}

OptionExpirations == {Date(2025, 8, 22), Date(2026, 1, 16)}

OptionStrikes == {Rat(1, 2000), Rat(77, 100), RInt(30), Rat(455, 2), RInt(100000)}

NextOptionSymbol ==
    \/ \E c \in Clients, underlying_symbol \in OptionUnderlyings,
          expiration_date \in OptionExpirations, option_type \in {"CALL", "PUT"},
          strike_price \in OptionStrikes :
           CallGenerateSymbol(c, underlying_symbol, expiration_date, option_type, strike_price)
    \/ \E c \in Clients : Return(c)

SpecOptionSymbol == Init /\ [][NextOptionSymbol]_vars

----------------------------------------------------------------------------
(* Prices of option symbols, on the last day of a contract and the day after *)

OptionSymbols == {"AAPL250822C00227500", "MSFT251301P00030000"}

OptionDays == {Date(2025, 8, 22), Date(2025, 8, 23)}

InitOptionPrice ==
    /\ trades = <<>>
    /\ daily_snapshots = <<>>
    /\ completed = {}
    /\ next_id = 1
    /\ today \in OptionDays
    /\ now = 0
    /\ cache = [s \in OptionSymbols \cup {"CASH_USD"} |-> None]
    /\ next_round = 0
    /\ req = [c \in Clients |-> Idle]
    /\ scheduled_tasks = <<>>
    /\ task_counter = 0

OptionChains == {"listed", "absent", "error"}

OptionBatchMenu ==
    {<<"CASH_USD">>, <<"AAPL250822C00227500">>, <<"AAPL250822C00227500", "CASH_USD">>}

NextOptionPrice ==
    \/ Tick
    \/ \E c \in Clients, symbol \in OptionSymbols, force_refresh \in BOOLEAN :
           CallGetStockPrice(c, symbol, force_refresh)
    \/ \E c \in Clients, chain \in OptionChains : OptionDone(c, chain)
    \/ \E c \in Clients, info \in PriceInfos : YahooDone(c, info)
    \/ \E symbols \in OptionBatchMenu : CallGetMultiplePrices("c1", symbols)
    \/ BatchDone("c1", PriceInfos)
    \/ BatchError("c1")
    \/ \E c \in Clients : Return(c)

SpecOptionPrice == InitOptionPrice /\ [][NextOptionPrice]_vars

----------------------------------------------------------------------------
(* Concurrent get_stock_price calls on one symbol *)

CacheInfos == {InfoError, InfoRegular, InfoPre}

NextCache ==
    \/ Tick
    \/ \E c \in Clients, force_refresh \in BOOLEAN : CallGetStockPrice(c, "AAPL", force_refresh)
    \/ \E c \in Clients, info \in CacheInfos : YahooDone(c, info)
    \/ \E c \in Clients : Return(c)

SpecCache == Init /\ [][NextCache]_vars

----------------------------------------------------------------------------
(* Snapshots of all portfolios with a store that may fail *)

AllTrades ==
    <<Trade("P1", "AAPL", "BUY", 10, 10, 0, SnapTradeDate),
      Trade("P1", "MSFT", "BUY", 5, 12, 0, SnapTradeDate),
      Trade("P2", "AAPL", "BUY", 4, 10, 0, SnapTradeDate)>>

InitAll ==
    /\ trades = AllTrades
    /\ daily_snapshots = <<>>
    /\ completed = {}
    /\ next_id = 1
    /\ today = Today0
    /\ now = 0
    /\ cache = EmptyCache
    /\ next_round = 0
    /\ req = [c \in Clients |-> Idle]
    /\ scheduled_tasks = <<>>
    /\ task_counter = 0

AllPortfolios == <<"P1", "P2">>

NextAll ==
    \/ \E d \in SnapDates : CallCreateAll("c1", d)
    \/ CallCreateAll("c2", Date(2025, 1, 31))
    \/ \E c \in Clients, closes \in SnapCloses : CrList(c, AllPortfolios, closes)
    \/ \E c \in Clients, closes \in SnapCloses : CrNext(c, closes)
    \/ \E c \in Clients : BatchDone(c, SnapInfos)
    \/ \E c \in Clients : PosRow(c)
    \/ \E c \in Clients : CrFind(c)
    \/ \E c \in Clients : CrInsert(c)
    \/ \E c \in Clients : CrRaise(c)
    \/ \E c \in Clients : Return(c)

SpecAll == InitAll /\ [][NextAll]_vars

----------------------------------------------------------------------------
(* C2: the fetch round of a batch request *)

\* a batch price request that has returned: get_multiple_prices called
\* directly, or by positions(force_fresh=true)
BatchReturned(r) ==
    /\ r.pc = "done"
    /\ r.op = "batch" \/ (r.op = "positions" /\ r.force_fresh)

\* C2 as stated: a batch request that has returned performed exactly one
\* fetch round, has an answer for every requested symbol, and every quote it
\* returned was obtained in that round.
C2_ExactlyOneRound ==
    \A c \in Clients :
        BatchReturned(req[c]) =>
            /\ Cardinality(req[c].rounds) = 1
            /\ \A s \in SeqSet(req[c].requested) :
                   /\ s \in DOMAIN req[c].all_prices
                   /\ req[c].all_prices[s] # None =>
                          req[c].all_prices[s].round \in req[c].rounds

\* C2, amended: a batch request that has returned performed one fetch round
\* if it asked for a symbol other than CASH_USD and none otherwise; it has an
\* answer for every requested symbol; every quote of a symbol other than
\* CASH_USD was obtained in that round, so none comes from the cache; the
\* CASH_USD quote is the fixed one, built without a fetch; and positions()
\* values each row with the quote of that batch.
C2_OneRoundExceptCash ==
    \A c \in Clients :
        BatchReturned(req[c]) =>
            /\ Cardinality(req[c].rounds) =
                   IF SeqSet(req[c].requested) \ {"CASH_USD"} = {} THEN 0 ELSE 1
            /\ \A s \in SeqSet(req[c].requested) :
                   /\ s \in DOMAIN req[c].all_prices
                   /\ (s # "CASH_USD" /\ req[c].all_prices[s] # None) =>
                          req[c].all_prices[s].round \in req[c].rounds
                   /\ s = "CASH_USD" => req[c].all_prices[s] = cash_data_batch
            /\ req[c].op = "positions" =>
                   \A k \in 1..Len(req[c].result) :
                       req[c].result[k].price_data =
                           req[c].all_prices[req[c].result[k].symbol]

\* a batch for AAPL, CASH_USD and MSFT has returned quotes for both stocks
\* while the cache holds a valid AAPL entry from an earlier request
C2_Witness ==
    /\ req["c1"].op = "batch"
    /\ req["c1"].pc = "done"
    /\ req["c1"].requested = <<"AAPL", "CASH_USD", "MSFT">>
    /\ req["c1"].result["AAPL"] # None
    /\ req["c1"].result["MSFT"] # None
    /\ cache["AAPL"] # None
    /\ now - cache["AAPL"].timestamp < cache_duration
    /\ cache["AAPL"].data.round < req["c1"].round

----------------------------------------------------------------------------
(* C3: the prices of one positions() result *)

\* C3: a positions() request that has returned started at most one fetch
\* round, and no two of its rows are priced with quotes of different fetch
\* rounds.
C3_OnePriceRound ==
    \A c \in Clients :
        (req[c].op = "positions" /\ req[c].pc = "done") =>
            /\ Cardinality(req[c].rounds) <= 1
            /\ \A j, k \in 1..Len(req[c].result) :
                   LET a == req[c].result[j].price_data
                       b == req[c].result[k].price_data
                   IN  (a # None /\ b # None /\ a.round # 0 /\ b.round # 0) =>
                           a.round = b.round

----------------------------------------------------------------------------
(* C10: the time to live of a cache entry *)

\* get_stock_price has returned to the endpoint that called it
GetReturned(r) == r.op = "get" /\ r.pc = "done"

\* the entry the call found is younger than the time to live
FreshAtCall(r) ==
    /\ r.cached_at_call # None
    /\ r.call_time - r.cached_at_call.timestamp < cache_duration

\* the call fetched from the provider and did not answer from the cache
Refetched(r) ==
    /\ r.rounds # {}
    /\ r.result # None => r.result.round \in r.rounds
    /\ r.cached_at_call # None => r.result # r.cached_at_call.data

\* an entry is valid exactly while now - timestamp < cache_duration
ValidWhileYoung ==
    \A s \in Symbols :
        cache[s] # None =>
            (_is_cache_valid(cache, s, now) <=> now - cache[s].timestamp < cache_duration)

\* C10 as stated: an entry is valid exactly while it is younger than the
\* time to live; a get without force_refresh that finds a valid entry returns
\* its quote and fetches nothing; every other get fetches anew and does not
\* return the cached quote.
C10_CacheTTL ==
    /\ ValidWhileYoung
    /\ \A c \in Clients :
           GetReturned(req[c]) =>
               IF ~req[c].force_fresh /\ FreshAtCall(req[c])
               THEN req[c].result = req[c].cached_at_call.data /\ req[c].rounds = {}
               ELSE Refetched(req[c])

\* C10, amended: as stated for every symbol but CASH_USD; a get of CASH_USD
\* never fetches, and returns the valid entry's quote or else the fixed quote.
C10_CacheTTLExceptCash ==
    /\ ValidWhileYoung
    /\ \A c \in Clients :
           GetReturned(req[c]) =>
               IF ~req[c].force_fresh /\ FreshAtCall(req[c])
               THEN req[c].result = req[c].cached_at_call.data /\ req[c].rounds = {}
               ELSE IF req[c].symbol = "CASH_USD"
               THEN req[c].result = cash_data /\ req[c].rounds = {}
               ELSE Refetched(req[c])

\* a get without force_refresh has been answered from an entry fetched
\* earlier, in the last second of its validity
C10_Witness ==
    \E c \in Clients :
        /\ GetReturned(req[c])
        /\ ~req[c].force_fresh
        /\ req[c].symbol = "AAPL"
        /\ req[c].cached_at_call # None
        /\ req[c].call_time - req[c].cached_at_call.timestamp = cache_duration - 1
        /\ req[c].result.round > 0
        /\ req[c].rounds = {}

----------------------------------------------------------------------------
(* C4: one snapshot per portfolio, symbol and date *)

\* C4: no two documents of the snapshot store have the same portfolio_name,
\* symbol and snapshot_date.
C4_UniqueKey ==
    \A j, k \in 1..Len(daily_snapshots) :
        (/\ daily_snapshots[j].portfolio_name = daily_snapshots[k].portfolio_name
         /\ daily_snapshots[j].symbol = daily_snapshots[k].symbol
         /\ daily_snapshots[j].snapshot_date = daily_snapshots[k].snapshot_date) => j = k

----------------------------------------------------------------------------
(* C5: a second snapshot call *)

\* a snapshot call has returned that began after a call for the same
\* portfolio and date had completed, with no trade added and no snapshot
\* removed since that call began
SecondCallReturned(r) ==
    /\ r.op = "create"
    /\ r.pc = "done"
    /\ r.repeat
    /\ r.clean

\* C5: such a second call returns count 0 and has inserted nothing, whatever
\* prices it valued the positions with; the snapshot of each of its positions
\* is in the store.
C5_Idempotent ==
    \A c \in Clients :
        SecondCallReturned(req[c]) =>
            /\ req[c].result = 0
            /\ req[c].inserted = {}
            /\ \A k \in 1..Len(req[c].rows) :
                   \E x \in SeqSet(daily_snapshots) :
                       /\ x.portfolio_name = req[c].portfolio_name
                       /\ x.symbol = req[c].rows[k].symbol
                       /\ x.snapshot_date = req[c].snapshot_date

\* a second call for today has returned 0 after valuing AAPL at another
\* price than the one stored
C5_Witness ==
    \E c \in Clients :
        /\ SecondCallReturned(req[c])
        /\ req[c].snapshot_date = today
        /\ req[c].result = 0
        /\ Len(req[c].rows) = 1
        /\ \E x \in SeqSet(daily_snapshots) :
               /\ x.symbol = req[c].rows[1].symbol
               /\ x.snapshot_date = today
               /\ x.current_price # req[c].rows[1].current_price

----------------------------------------------------------------------------
(* C6: snapshots are write-once *)

\* the retention the cleanup endpoint is called with
RetentionDays == {30}

\* the documents of the store that are gone after the step
Removed ==
    {x \in SeqSet(daily_snapshots) : \A y \in SeqSet(daily_snapshots') : y._id # x._id}

\* a step leaves every document that stays as it was, and what it removes is
\* nothing, the snapshots of one date, or the snapshots older than today
\* minus the retention days
WriteOnceStep ==
    /\ \A x \in SeqSet(daily_snapshots) : x \notin Removed => x \in SeqSet(daily_snapshots')
    /\ \/ Removed = {}
       \/ \E d \in {x.snapshot_date : x \in Removed} :
              Removed = {x \in SeqSet(daily_snapshots) : x.snapshot_date = d}
       \/ \E days \in RetentionDays :
              Removed = {x \in SeqSet(daily_snapshots) : x.snapshot_date < today - days}

\* C6: no step of any operation changes a field of a stored snapshot, and a
\* snapshot leaves the store only with all snapshots of its date
\* (deleteByDate) or with all snapshots older than the retention (cleanup).
C6_WriteOnce == [][WriteOnceStep]_vars

\* the first snapshot inserted has been removed and a later one is stored
C6_Witness ==
    /\ daily_snapshots # <<>>
    /\ \A k \in 1..Len(daily_snapshots) : daily_snapshots[k]._id > 1

----------------------------------------------------------------------------
(* C8: the reference P&L of the three periods *)

AttrReturned(c) == req[c].op = "attr" /\ req[c].pc = "done"

\* the stored snapshots of a symbol dated on or before d
OnOrBefore(portfolio_name, symbol, d) ==
    {k \in 1..Len(daily_snapshots) :
        /\ daily_snapshots[k].portfolio_name = portfolio_name
        /\ daily_snapshots[k].symbol = symbol
        /\ daily_snapshots[k].snapshot_date <= d}

OnDate(portfolio_name, symbol, d) ==
    {k \in OnOrBefore(portfolio_name, symbol, d) : daily_snapshots[k].snapshot_date = d}

\* the inception_pl of the most recent snapshot on or before d (of the one
\* dated d when there is one), 0 when there is none
ReferencePl(portfolio_name, symbol, d) ==
    LET S == OnOrBefore(portfolio_name, symbol, d)
    IN  IF S = {} THEN {RZero}
        ELSE {daily_snapshots[k].inception_pl :
                k \in {j \in S : \A i \in S : daily_snapshots[i].snapshot_date
                                                <= daily_snapshots[j].snapshot_date}}

\* the reference of the day-to-date figure: the snapshot of the previous
\* trading day, else the most recent one before the analysis date
DayReferencePl(portfolio_name, symbol, previous_trading_day, analysis_date) ==
    IF OnDate(portfolio_name, symbol, previous_trading_day) # {}
    THEN ReferencePl(portfolio_name, symbol, previous_trading_day)
    ELSE ReferencePl(portfolio_name, symbol, analysis_date - 1)

Minus(row, field, references) ==
    \E ref \in references : row[field] = Round2(RSub(row.current_inception_pl, ref))

LongPeriods(row) ==
    /\ Minus(row, "mtd_pl", ReferencePl(row.portfolio_name, row.symbol,
                                        row.last_trading_day_of_previous_month))
    /\ Minus(row, "ytd_pl", ReferencePl(row.portfolio_name, row.symbol,
                                        row.last_trading_day_of_previous_year))

NoPriorSnapshot(row) ==
    OnOrBefore(row.portfolio_name, row.symbol, row.analysis_date - 1) = {}

Baseline(row) ==
    NoPriorSnapshot(row) =>
        /\ row.dtd_pl = row.current_inception_pl
        /\ row.mtd_pl = row.current_inception_pl
        /\ row.ytd_pl = row.current_inception_pl

SymbolRows(c) == {k \in 1..Len(req[c].result) : "type" \notin DOMAIN req[c].result[k]}

\* C8 as stated: every reference, the day-to-date one included, is the
\* snapshot on the reference date, else the most recent one on or before it,
\* else 0.
C8_ReferenceOnOrBefore ==
    \A c \in Clients : AttrReturned(c) =>
        \A k \in SymbolRows(c) :
            LET row == req[c].result[k]
            IN  /\ Minus(row, "dtd_pl", ReferencePl(row.portfolio_name, row.symbol,
                                                    row.previous_trading_day))
                /\ LongPeriods(row)
                /\ Baseline(row)

\* C8: in every row of a returned attribution, mtd_pl and ytd_pl are
\* current_inception_pl minus the inception_pl of the snapshot on the
\* month-end / year-end reference date, else of the most recent snapshot on or
\* before it, else 0; dtd_pl is current_inception_pl minus the inception_pl of
\* the snapshot on the previous trading day, else of the most recent snapshot
\* dated before the analysis date, else 0; with no prior snapshot all three
\* equal current_inception_pl.
C8_ReferenceDayBeforeToday ==
    \A c \in Clients : AttrReturned(c) =>
        \A k \in SymbolRows(c) :
            LET row == req[c].result[k]
            IN  /\ Minus(row, "dtd_pl", DayReferencePl(row.portfolio_name, row.symbol,
                                                       row.previous_trading_day,
                                                       row.analysis_date))
                /\ LongPeriods(row)
                /\ Baseline(row)

\* an attribution has returned a row whose day-to-date reference is a snapshot
\* dated after the previous trading day and whose month-end reference is a
\* snapshot older than the month end
C8_Witness ==
    \E c \in Clients : AttrReturned(c) /\
        \E k \in SymbolRows(c) :
            LET row == req[c].result[k]
            IN  /\ ~row.has_previous_trading_day_snapshot
                /\ row.has_last_working_day_snapshot
                /\ row.last_working_day > row.previous_trading_day
                /\ row.dtd_pl # row.current_inception_pl
                /\ row.has_month_end_snapshot
                /\ OnDate(row.portfolio_name, row.symbol,
                          row.last_trading_day_of_previous_month) = {}
                /\ row.mtd_pl # row.dtd_pl

----------------------------------------------------------------------------
(* C9: the rows of an attribution *)

RECURSIVE RSum(_)
RSum(values) ==
    IF values = <<>> THEN RZero ELSE RAdd(values[1], RSum(Tail(values)))

\* the positions the request got that pass its symbol filter
Filtered(r) ==
    SelectSeq(r.rows, LAMBDA position : r.filter = "" \/ position.symbol = r.filter)

\* the unrounded per-symbol figures of the emitted rows
Unrounded(r, field) ==
    [k \in 1..Len(Filtered(r)) |->
        position_analysis(daily_snapshots, today, r.portfolio_name, Filtered(r)[k])[field]]

RowsThenSummary(r) ==
    LET expected == Filtered(r)
        n == Len(expected)
    IN  /\ Len(r.result) = n + 1
        /\ \A k \in 1..n :
              /\ r.result[k].symbol = expected[k].symbol
              /\ "type" \notin DOMAIN r.result[k]
        /\ "type" \in DOMAIN r.result[n + 1]
        /\ r.result[n + 1].type = "portfolio_summary"
        /\ r.result[n + 1].dtd_pl = RSum(Unrounded(r, "dtd_pl"))
        /\ r.result[n + 1].mtd_pl = RSum(Unrounded(r, "mtd_pl"))
        /\ r.result[n + 1].ytd_pl = RSum(Unrounded(r, "ytd_pl"))
        /\ r.result[n + 1].current_total_pl = RSum(Unrounded(r, "current_inception_pl"))

\* C9: a returned attribution holds one row per position that passes the
\* symbol filter, in order and without the summary tag, then exactly one row
\* tagged "portfolio_summary" (also with no positions) whose dtd_pl, mtd_pl,
\* ytd_pl and current_total_pl are the sums of the unrounded per-symbol values.
C9_RowsThenSummary ==
    \A c \in Clients : AttrReturned(c) => RowsThenSummary(req[c])

\* an unfiltered attribution has returned two symbol rows with non-zero
\* figures and a summary whose day-to-date total differs from the current total
C9_Witness ==
    \E c \in Clients :
        /\ AttrReturned(c)
        /\ req[c].filter = ""
        /\ Len(req[c].result) = 3
        /\ \A k \in 1..2 : req[c].result[k].dtd_pl # RZero
        /\ req[c].result[3].dtd_pl # req[c].result[3].current_total_pl
        /\ req[c].result[3].current_total_pl # req[c].result[2].current_inception_pl

----------------------------------------------------------------------------
(* C11: a failing symbol in a batch *)

\* POST /market-data/prices has its answer
PricesReturned(c) == req[c].op = "batch" /\ req[c].pc = "done"

\* the provider gave no usable price for the symbol
NoPrice(info) == info.status = "error" \/ info.regularMarketPrice = 0

\* the price the provider's answer carries: pre-market, else post-market, else
\* regular market
PriceIn(info) ==
    IF info.preMarketPrice > 0 THEN info.preMarketPrice
    ELSE IF info.postMarketPrice > 0 THEN info.postMarketPrice
    ELSE info.regularMarketPrice

\* C11: a batch request that has returned has an entry for every requested
\* symbol; a symbol the provider failed for (or gave no price for) has None,
\* and every other fetched symbol has the quote made from its own answer in
\* the round of this request, whatever happened to the other symbols.
C11_FailureIsPerSymbol ==
    \A c \in Clients : PricesReturned(c) =>
        LET r == req[c]
        IN  /\ DOMAIN r.result = SeqSet(r.requested)
            /\ \A s \in DOMAIN r.infos :
                  IF NoPrice(r.infos[s]) THEN r.result[s] = None
                  ELSE /\ r.result[s] # None
                       /\ r.result[s].symbol = s
                       /\ r.result[s].price = RInt(PriceIn(r.infos[s]))
                       /\ r.result[s].round = r.round

\* a batch has returned with None for one symbol and a fetched quote for another
C11_Witness ==
    \E c \in Clients : PricesReturned(c) /\
        \E s, t \in DOMAIN req[c].infos :
            /\ req[c].infos[s].status = "error"
            /\ req[c].result[s] = None
            /\ ~NoPrice(req[c].infos[t])
            /\ req[c].result[t] # None

----------------------------------------------------------------------------
(* C12: a position without a price *)

PositionsReturned(c) == req[c].op = "positions" /\ req[c].pc = "done"

\* the row is valued at cost
AtCost(row) ==
    /\ row.current_price = row.average_cost
    /\ row.market_value = row.total_cost
    /\ row.unrealized_pl = RZero

\* the row is valued with the price of its quote
AtQuote(row) ==
    /\ row.current_price = Round2(row.price_data.price)
    /\ row.market_value = Round2(RMul(RInt(row.position_quantity), row.price_data.price))

\* C12: positions() returns one row per position, whether or not a price was
\* found; a row without a price has current_price = average_cost,
\* market_value = its remaining cost basis and unrealized_pl = 0, and every
\* other row is valued with its own quote.
C12_FallbackToCost ==
    \A c \in Clients : PositionsReturned(c) =>
        LET r == req[c]
        IN  /\ Len(r.result) = Len(r.positions)
            /\ \A k \in 1..Len(r.result) :
                  /\ r.result[k].symbol = r.positions[k].symbol
                  /\ IF r.result[k].price_data = None
                     THEN AtCost(r.result[k])
                     ELSE AtQuote(r.result[k])

\* positions() has returned a row valued at cost beside a row valued with a
\* quote that differs from the cost
C12_Witness ==
    \E c \in Clients : PositionsReturned(c) /\
        \E j, k \in 1..Len(req[c].result) :
            /\ req[c].result[j].price_data = None
            /\ req[c].result[k].price_data # None
            /\ req[c].result[k].current_price # req[c].result[k].average_cost

----------------------------------------------------------------------------
(* C13: closed positions *)

\* total bought minus total sold of a symbol over the trades ts
RECURSIVE NetQuantity(_, _, _)
NetQuantity(ts, portfolio_name, symbol) ==
    IF ts = <<>> THEN 0
    ELSE (IF Head(ts).portfolio_name = portfolio_name /\ Head(ts).symbol = symbol
          THEN (IF Head(ts).trade_type = "BUY" THEN Head(ts).quantity
                ELSE IF Head(ts).trade_type = "SELL" THEN 0 - Head(ts).quantity
                ELSE 0)
          ELSE 0) + NetQuantity(Tail(ts), portfolio_name, symbol)

\* the trades a request values: all of them, or for a snapshot of another
\* date those dated on or before it
TradesValued(r) ==
    IF r.op = "create" /\ r.snapshot_date # today
    THEN SelectSeq(r.trades_seen, LAMBDA t : t.trade_date <= r.snapshot_date)
    ELSE r.trades_seen

\* the positions a request has emitted: the result of positions(), the
\* position set of a snapshot call
Emitted(r) ==
    IF r.op = "positions" /\ r.pc = "done" THEN r.result
    ELSE IF r.op = "create" /\ r.pc \in {"cr_find", "cr_insert", "done"} THEN r.rows
    ELSE <<>>

\* C13: every position in the result of positions() and in the position set
\* of a snapshot call has net quantity (total bought - total sold) > 0 and
\* carries that quantity; every stored snapshot has a positive quantity.
C13_OnlyOpenPositions ==
    /\ \A c \in Clients :
          \A k \in 1..Len(Emitted(req[c])) :
              LET row == Emitted(req[c])[k]
                  net == NetQuantity(TradesValued(req[c]), req[c].portfolio_name, row.symbol)
              IN  net > 0 /\ row.position_quantity = net
    /\ \A k \in 1..Len(daily_snapshots) : daily_snapshots[k].position_quantity > 0

\* whether the request valued trades of the symbol
Traded(r, symbol) ==
    \E k \in 1..Len(TradesValued(r)) : TradesValued(r)[k].symbol = symbol

\* positions() or a snapshot call that stored something has returned having
\* left out a symbol that was traded and is closed, beside an open one
C13_Witness ==
    \E c \in Clients :
        /\ req[c].pc = "done"
        /\ req[c].op \in {"positions", "create"}
        /\ req[c].op = "create" => req[c].snapshots_created > 0
        /\ Traded(req[c], "AAPL")
        /\ NetQuantity(TradesValued(req[c]), req[c].portfolio_name, "AAPL") <= 0
        /\ Len(Emitted(req[c])) = 1

----------------------------------------------------------------------------
(* C14, C15: the reference dates *)

\* the holiday table of a year
HolidayTable(y) ==
    IF y = 2025 THEN holidays_2025 ELSE IF y = 2024 THEN holidays_2024 ELSE {}

\* neither a Saturday or Sunday nor a holiday of the table of its year
TradingDay(x) == Weekday(x) < 5 /\ x \notin HolidayTable(YearOf(x))

\* the latest trading day on or before x
LatestTradingDay(x) ==
    CHOOSE t \in (x - 10)..x : TradingDay(t) /\ \A u \in (t + 1)..x : ~TradingDay(u)

\* P holds of every per-symbol row of every attribution that has returned
EveryReturnedRow(P(_)) ==
    \A c \in Clients : AttrReturned(c) => \A k \in SymbolRows(c) : P(req[c].result[k])

\* C14 as stated: the previous trading day of the analysis date is the
\* latest date strictly before it that is neither a weekend day nor a holiday
\* of the holiday table of its year.
C14_PreviousTradingDay ==
    EveryReturnedRow(LAMBDA row :
        row.previous_trading_day = LatestTradingDay(row.analysis_date - 1))

\* C15 as stated: the previous month-end and year-end trading days of the
\* analysis date are the latest trading days on or before the last day of the
\* preceding month and of the preceding year, and lie in that month and year.
C15_PreviousPeriodEnd ==
    EveryReturnedRow(LAMBDA row :
        LET y == YearOf(row.analysis_date)
            month_end == Date(y, MonthOf(row.analysis_date), 1) - 1
            year_end == Date(y - 1, 12, 31)
        IN  /\ row.last_trading_day_of_previous_month = LatestTradingDay(month_end)
            /\ YearOf(row.last_trading_day_of_previous_month) = YearOf(month_end)
            /\ MonthOf(row.last_trading_day_of_previous_month) = MonthOf(month_end)
            /\ row.last_trading_day_of_previous_year = LatestTradingDay(year_end)
            /\ YearOf(row.last_trading_day_of_previous_year) = y - 1)

----------------------------------------------------------------------------
(* C16: the life of a task *)

Statuses == {"pending", "running", "completed", "failed"}

\* pending -> running -> completed | failed, and what a step that does not
\* suspend in between makes of it
Lifecycle ==
    {<<"pending", "running">>, <<"running", "completed">>, <<"running", "failed">>,
     <<"pending", "completed">>, <<"pending", "failed">>}

\* C16 as stated: a status is one of the four and changes only along
\* pending -> running -> completed | failed; a completed or failed task
\* never runs again.
C16_StatusLifecycle ==
    [][\A task_id \in DOMAIN scheduled_tasks :
          /\ scheduled_tasks[task_id].status \in Statuses
          /\ task_id \in DOMAIN scheduled_tasks' =>
                \/ scheduled_tasks'[task_id].status = scheduled_tasks[task_id].status
                \/ <<scheduled_tasks[task_id].status, scheduled_tasks'[task_id].status>>
                       \in Lifecycle]_vars

----------------------------------------------------------------------------
(* C17: run_all_pending_tasks *)

\* C17 as stated: when run_all_pending_tasks returns it has one result per
\* task that was pending when it was called, and none of those tasks is
\* pending or running.
C17_RunAllFinishesAll ==
    [][\A c \in Clients :
          (req[c].pc # "done" /\ req'[c].pc = "done" /\ req'[c].op = "run_all") =>
              /\ req'[c].queue = <<>>
              /\ Len(req'[c].results) = Len(req'[c].asked)
              /\ \A k \in 1..Len(req'[c].asked) :
                    /\ req'[c].asked[k] \in DOMAIN scheduled_tasks'
                    /\ scheduled_tasks'[req'[c].asked[k]].status
                           \in {"completed", "failed"}]_vars

----------------------------------------------------------------------------
(* C18: scheduling runs nothing *)

\* the call of client c has moved in this step
Moved(c) ==
    \/ req[c].pc # req'[c].pc
    \/ Len(req[c].results) # Len(req'[c].results)

\* a step of schedule_daily_snapshots or simulate_daily_schedule
ScheduleStep == task_counter' # task_counter

AddsOnePending ==
    \E task_id \in DOMAIN scheduled_tasks' \ DOMAIN scheduled_tasks :
        /\ DOMAIN scheduled_tasks' = DOMAIN scheduled_tasks \cup {task_id}
        /\ scheduled_tasks'[task_id].status = "pending"
        /\ \A other \in DOMAIN scheduled_tasks :
              scheduled_tasks'[other] = scheduled_tasks[other]
        /\ daily_snapshots' = daily_snapshots

\* a pending task leaves that status only in a step of a run or run-all call
\* that was asked to run it
PendingUntilRun ==
    \A task_id \in DOMAIN scheduled_tasks :
        (/\ scheduled_tasks[task_id].status = "pending"
         /\ ~(/\ task_id \in DOMAIN scheduled_tasks'
              /\ scheduled_tasks'[task_id].status = "pending"))
            => \E c \in Clients : /\ Moved(c)
                                  /\ req'[c].runner # ""
                                  /\ task_id \in SeqSet(req'[c].asked)

\* a snapshot is stored only by a call running a task that is marked running
StoredByRunningTask ==
    daily_snapshots' # daily_snapshots =>
        \E c \in Clients : /\ req[c].pc = "cr_insert"
                           /\ Moved(c)
                           /\ req[c].runner # ""
                           /\ req[c].task \in SeqSet(req[c].asked)
                           /\ scheduled_tasks[req[c].task].status = "running"

\* C18: a schedule step adds exactly one task, under a new id and pending,
\* and changes no other task and no snapshot; a pending task stays pending
\* and nothing is stored for it until a run or run-all call takes it up,
\* whatever the clock says.
C18_ScheduleRunsNothing ==
    [][/\ ScheduleStep => AddsOnePending
       /\ PendingUntilRun
       /\ StoredByRunningTask]_vars

\* a task is still pending after its scheduled time, beside a task that was
\* run and stored a snapshot
C18_Witness ==
    \E task_id, other \in DOMAIN scheduled_tasks :
        /\ scheduled_tasks[task_id].status = "pending"
        /\ scheduled_tasks[task_id].scheduled_time < now
        /\ scheduled_tasks[other].status = "completed"
        /\ daily_snapshots # <<>>

----------------------------------------------------------------------------
(* C19: option symbol round trip *)

\* the generate-symbol request of client c has returned
Generated(c) == req[c].op = "generate" /\ req[c].pc = "done"

\* 'call' / 'put' of the parser against CALL / PUT of the definition
TypeName(type) == IF type = "call" THEN "CALL" ELSE "PUT"

\* |a - b| <= 1/100
Within1Cent(a, b) == RLe(RSub(a, b), Rat(1, 100)) /\ RLe(RSub(b, a), Rat(1, 100))

\* the parsed symbol gives back the definition it was generated from
RoundTrip(option, option_info) ==
    /\ option_info # None
    /\ option_info.underlying = option.underlying_symbol
    /\ option_info.expiration = option.expiration_date
    /\ TypeName(option_info.type) = option.option_type
    /\ Within1Cent(option_info.strike, option.strike_price)

\* C19: for every underlying, expiration date, option type and strike the
\* option reference data accepts, parsing the symbol generate_option_symbol
\* produces succeeds and gives back the underlying, the expiration date and
\* the option type, and a strike within 0.01 of the original.
C19_RoundTrip ==
    \A c \in Clients :
        Generated(c) =>
            RoundTrip(req[c].option, _parse_option_symbol(req[c].result.option_symbol))

----------------------------------------------------------------------------
(* C20: an expired option costs no provider call *)

\* the symbol decodes to an option whose expiration date is before today
ExpiredOption(symbol) ==
    LET Expired(option_info) == option_info # None /\ option_info.expiration < today
    IN  Expired(_parse_option_symbol(Spelling(symbol)))

ZeroQuote(price_data) == price_data # None /\ price_data.price = RZero

\* the single-symbol get: no fetch round, and the quote has price 0
SingleGetExpired ==
    \A c \in Clients :
        (req[c].op = "get" /\ ExpiredOption(req[c].symbol)) =>
            /\ req[c].rounds = {}
            /\ req[c].pc = "done" => ZeroQuote(req[c].result)

\* the batch: the symbol is not in the list sent to the provider, and its
\* quote has price 0
BatchExpired ==
    \A c \in Clients :
        req[c].op = "batch" =>
            \A k \in 1..Len(req[c].requested) :
                ExpiredOption(req[c].requested[k]) =>
                    /\ req[c].requested[k] \notin SeqSet(req[c].symbols)
                    /\ req[c].pc = "done" =>
                           ZeroQuote(DictGet(req[c].result, req[c].requested[k]))

\* C20: a price request for an option symbol whose decoded expiration date
\* is before today returns a quote with price 0 and makes no provider call,
\* on the single-symbol get and on the force-refresh batch.
C20_ExpiredOptionNoFetch == SingleGetExpired /\ BatchExpired

----------------------------------------------------------------------------
(* C21: the cache under concurrent get_stock_price calls *)

\* in this step the get of client c returns
GetReturns(c) == req'[c].op = "get" /\ req'[c].pc = "done" /\ req[c].pc # "done"

\* the entry of symbol after the step is the quote client c returns in it,
\* stamped with the time of the step
WrittenBy(c, symbol) ==
    /\ GetReturns(c)
    /\ req'[c].symbol = symbol
    /\ req'[c].result # None
    /\ cache'[symbol] = [data |-> req'[c].result, timestamp |-> now]

\* an entry is absent or a quote of its symbol with a timestamp
CompleteEntries ==
    \A symbol \in DOMAIN cache :
        cache[symbol] # None =>
            /\ DOMAIN cache[symbol] = {"data", "timestamp"}
            /\ cache[symbol].data # None
            /\ cache[symbol].data.symbol = symbol
            /\ cache[symbol].timestamp \in 0..now

CacheStep ==
    /\ CompleteEntries'
    /\ \A symbol \in DOMAIN cache :
           cache'[symbol] # cache[symbol] => \E c \in Clients : WrittenBy(c, symbol)
    /\ \A c \in Clients :
           (req[c].pc = "get_fetch" /\ GetReturns(c)) =>
               IF req'[c].result = None THEN cache' = cache
               ELSE WrittenBy(c, req[c].symbol)

\* C21: under any interleaving of concurrent get(symbol) calls, a cache
\* entry is at every moment absent or a complete {quote, timestamp} pair
\* written by exactly one call; a call whose fetch returns a quote replaces
\* the entry with its own quote and time whatever the entry held (so the
\* call whose fetch completes last wins), and a call whose fetch failed
\* leaves the cache unchanged.
C21_LastWriterWins == [][CacheStep]_vars

\* both clients fetched AAPL in different rounds, both got a quote, and the
\* entry is the quote of the round started first: its fetch completed last
C21_Witness ==
    /\ \A c \in Clients : req[c].op = "get" /\ req[c].pc = "done" /\ req[c].symbol = "AAPL"
                          /\ req[c].result # None /\ req[c].rounds # {}
    /\ req["c1"].round < req["c2"].round
    /\ cache["AAPL"] # None
    /\ cache["AAPL"].data = req["c1"].result
    /\ cache["AAPL"].data # req["c2"].result

----------------------------------------------------------------------------
(* C22: a failure part-way through create_simple_daily_snapshot *)

\* client c asked for the snapshots of all portfolios and has the list
Listed(c) == req[c].op = "create_all" /\ req[c].pc # "cr_list" /\ "portfolios" \notin req[c].failed

\* the documents the call of client c inserted, as the store holds them
StoredOf(c) ==
    {k \in 1..Len(daily_snapshots) : daily_snapshots[k]._id \in req[c].inserted}

\* every open position of the portfolio has its snapshot of the date
Snapshotted(portfolio_name, snapshot_date) ==
    \A symbol \in Symbols :
        NetQuantity(trades, portfolio_name, symbol) > 0 =>
            \E k \in 1..Len(daily_snapshots) :
                /\ daily_snapshots[k].portfolio_name = portfolio_name
                /\ daily_snapshots[k].symbol = symbol
                /\ daily_snapshots[k].snapshot_date = snapshot_date

PartialFailure(c) ==
    /\ Cardinality(StoredOf(c)) = Cardinality(req[c].inserted)
    /\ req[c].snapshots_created = Cardinality(req[c].inserted)
    /\ req[c].pc = "done" =>
           /\ req[c].result = req[c].snapshots_created
           /\ req[c].visited = req[c].listed
           /\ \A k \in 1..Len(req[c].listed) :
                  req[c].listed[k] \notin req[c].failed =>
                      Snapshotted(req[c].listed[k], req[c].snapshot_date)

\* the store keeps every document it holds as it is
Kept ==
    /\ Len(daily_snapshots') >= Len(daily_snapshots)
    /\ \A k \in 1..Len(daily_snapshots) : daily_snapshots'[k] = daily_snapshots[k]

\* C22: if create_simple_daily_snapshot fails part-way (find_one or
\* insert_one raises for some portfolio and symbol), every snapshot inserted
\* earlier in the call stays stored as it was, the loop goes on with the
\* remaining portfolios (each one is visited, and each one without a failure
\* gets all its snapshots), and the count returned is the number of
\* documents the call inserted.
C22_PartialFailure ==
    [][Kept /\ \A c \in Clients : Listed(c)' => PartialFailure(c)']_vars

\* the call inserted AAPL of P1, failed at MSFT of P1, went on to P2 and
\* inserted its AAPL, and returned 2
C22_Witness ==
    \E c \in Clients :
        /\ Listed(c) /\ req[c].pc = "done"
        /\ req[c].failed = {"P1"}
        /\ req[c].result = 2
        /\ {daily_snapshots[k].portfolio_name : k \in StoredOf(c)} = {"P1", "P2"}

----------------------------------------------------------------------------
(* C23: a task id that is not in the task map *)

\* in this step client c asks op for a task id the map does not hold
AsksUnknown(c, op) ==
    /\ req[c].op = "idle"
    /\ req'[c].op = op
    /\ req'[c].asked # <<>>
    /\ req'[c].asked[1] \notin DOMAIN scheduled_tasks

Untouched == scheduled_tasks' = scheduled_tasks /\ daily_snapshots' = daily_snapshots

\* run_scheduled_task raises the ValueError the endpoint answers with 404
RunNotFound ==
    \A c \in Clients :
        AsksUnknown(c, "run") =>
            /\ req'[c].pc = "done"
            /\ req'[c].result = [error |-> "Task not found"]
            /\ Untouched

StatusNotFound ==
    \A c \in Clients :
        AsksUnknown(c, "status") =>
            /\ req'[c].pc = "done"
            /\ req'[c].result.status_code = 404
            /\ Untouched

\* C23: asking for the status of, or running, a task id that is not in the
\* task map yields a not-found outcome (HTTP 404 at the scheduler endpoints),
\* never a generic internal failure, and leaves the task map and the
\* snapshot store unchanged.
C23_UnknownTaskNotFound == [][RunNotFound /\ StatusNotFound]_vars

----------------------------------------------------------------------------
(* C24: a SELL larger than the open lots *)

\* trade k of the history sells more shares than the lots open before it hold
Oversell(ts, k) ==
    /\ ts[k].trade_type = "SELL"
    /\ ts[k].quantity > LotQuantities(ProcessTrades(SubSeq(ts, 1, k - 1), FifoInit).buy_lots)

\* what trade k does to the ledger when it is an oversell
OversellStep(ts, k) ==
    LET Body(before, after, t) ==
            /\ after.buy_lots = <<>>
            /\ after.realized_pl =
                   RAdd(before.realized_pl,
                        RSub(RMul(RInt(LotQuantities(before.buy_lots)), t.executed_price),
                             SumLots(before.buy_lots)))
            /\ after.total_quantity_sold = before.total_quantity_sold + t.quantity
            /\ after.total_proceeds_sold =
                   RAdd(before.total_proceeds_sold,
                        RSub(RMul(RInt(t.quantity), t.executed_price), t.brokerage))
            /\ after.total_quantity_bought = before.total_quantity_bought
            /\ after.total_cost_bought = before.total_cost_bought
    IN  Body(ProcessTrades(SubSeq(ts, 1, k - 1), FifoInit),
             ProcessTrades(SubSeq(ts, 1, k), FifoInit), ts[k])

\* a BUY that follows an oversell opens a lot of its whole quantity
NotCarriedOver(ts, k) ==
    (k < Len(ts) /\ ts[k + 1].trade_type = "BUY") =>
        ProcessTrades(SubSeq(ts, 1, k + 1), FifoInit).buy_lots =
            <<Lot(ts[k + 1].quantity, ts[k + 1].executed_price,
                  RDiv(ts[k + 1].brokerage, RInt(ts[k + 1].quantity)))>>

\* the positions() request that read the history answered with rows and
\* nothing else, and the quantity of the row counts every SELL in full
AnsweredInFull(c) ==
    LET ts == TradesOf(req[c].trades_seen, "P1", "AAPL")
    IN  /\ \A k \in 1..Len(req[c].result) :
               req[c].result[k].position_quantity =
                   QuantityOf(ts, "BUY") - QuantityOf(ts, "SELL")
        /\ (Len(req[c].result) = 1) <=> (QuantityOf(ts, "BUY") > QuantityOf(ts, "SELL"))

\* C24: when a SELL's quantity exceeds the quantity of the open lots, the
\* matching stops with the lot queue empty: nothing is raised, the unmatched
\* remainder adds nothing to realized_pl and is not taken from later BUY
\* lots, and the SELL's full quantity and net proceeds are added to the
\* totals sold.
C24_OversellStops ==
    LET ts == TradesOf(trades, "P1", "AAPL")
    IN  /\ \A k \in 1..Len(ts) :
               Oversell(ts, k) => OversellStep(ts, k) /\ NotCarriedOver(ts, k)
        /\ \A c \in Clients :
               (req[c].op = "positions" /\ req[c].pc = "done") => AnsweredInFull(c)

\* a positions() request has answered with a row for a history in which a
\* SELL larger than the open lots is followed by a BUY
C24_Witness ==
    \E c \in Clients :
        /\ req[c].op = "positions" /\ req[c].pc = "done"
        /\ Len(req[c].result) = 1
        /\ \E k \in 1..(Len(req[c].trades_seen) - 1) :
               /\ Oversell(req[c].trades_seen, k)
               /\ req[c].trades_seen[k + 1].trade_type = "BUY"

----------------------------------------------------------------------------
(* C25: the open lots and the reported quantity *)

\* price + per-unit brokerage of each BUY trade of the history
UnitCosts(ts) ==
    {RAdd(ts[k].executed_price, RDiv(ts[k].brokerage, RInt(ts[k].quantity))) :
        k \in {j \in 1..Len(ts) : ts[j].trade_type = "BUY"}}

Between(x, costs) ==
    /\ \E lo \in costs : RLe(lo, x)
    /\ \E hi \in costs : RLe(x, hi)

LotsMatchPosition(ts, position) ==
    position # None =>
        /\ LotQuantities(ProcessTrades(ts, FifoInit).buy_lots) = position.position_quantity
        /\ Between(position.average_cost, UnitCosts(ts))

\* C25: for every trade history in trade_date order and every reported
\* position, the quantities of the open lots sum to the reported position
\* quantity (total bought - total sold), so that average_cost lies between
\* the smallest and the largest per-unit cost of the symbol's BUY trades.
C25_LotsMatchPosition ==
    /\ LotsMatchPosition(TradesOf(trades, "P1", "AAPL"),
                         calculate_fifo_position(trades, "P1", "AAPL", "STOCK"))
    /\ \A c \in Clients :
           (req[c].op = "positions" /\ req[c].pc = "done") =>
               \A k \in 1..Len(req[c].result) :
                   \E lo, hi \in UnitCosts(TradesOf(req[c].trades_seen, "P1", "AAPL")) :
                       /\ RLe(Round2(lo), req[c].result[k].average_cost)
                       /\ RLe(req[c].result[k].average_cost, Round2(hi))

----------------------------------------------------------------------------
(* C26: the period P&L of a positions() row and of attribution() *)

\* the three values calculate_dtd_mtd_ytd_pl_simple computes for one symbol
SimplePl(store, tdy, portfolio_name, symbol, current_inception_pl) ==
    LET Of(analysis) ==
            [dtd_pl |-> analysis.dtd_pl, mtd_pl |-> analysis.mtd_pl, ytd_pl |-> analysis.ytd_pl]
    IN  Of(position_analysis(store, tdy, portfolio_name,
                             [symbol |-> symbol, inception_pl |-> current_inception_pl]))

InceptionPls == {RInt(0), RInt(100), Rat(-25, 2)}

\* C26: for the same portfolio, symbol, snapshot store, current date and
\* current inception P&L, calculate_dtd_mtd_ytd_pl_for_symbol (the dtd_pl,
\* mtd_pl and ytd_pl of a positions() row) returns the same three values as
\* the per-symbol row of calculate_dtd_mtd_ytd_pl_simple (attribution),
\* before rounding.
C26_SamePeriodPl ==
    \A symbol \in {"AAPL", "MSFT"}, current_inception_pl \in InceptionPls :
        calculate_dtd_mtd_ytd_pl_for_symbol(daily_snapshots, today, "P1", symbol,
                                            current_inception_pl)
            = SimplePl(daily_snapshots, today, "P1", symbol, current_inception_pl)

----------------------------------------------------------------------------
(* C27: the snapshot of today and the snapshot of a past date *)

\* the snapshots i and j value the same position at the same price
SameInputs(i, j) ==
    /\ daily_snapshots[i].portfolio_name = daily_snapshots[j].portfolio_name
    /\ daily_snapshots[i].symbol = daily_snapshots[j].symbol
    /\ daily_snapshots[i].current_price = daily_snapshots[j].current_price
    /\ \A k \in 1..Len(trades) :
           /\ trades[k].trade_date <= daily_snapshots[i].snapshot_date
           /\ trades[k].trade_date <= daily_snapshots[j].snapshot_date

\* inception_pl = market_value + total sold proceeds - total bought cost
AllTimeInception(snapshot) ==
    LET ts == TradesOf(trades, snapshot.portfolio_name, snapshot.symbol)
    IN  snapshot.inception_pl =
            Round2(RSub(RAdd(snapshot.market_value, SoldProceeds(ts)), BoughtCost(ts)))

\* two snapshots of the same inputs store the same valuation
SameValuation ==
    \A i, j \in 1..Len(daily_snapshots) :
        SameInputs(i, j) =>
            /\ daily_snapshots[i].position_quantity = daily_snapshots[j].position_quantity
            /\ daily_snapshots[i].average_cost = daily_snapshots[j].average_cost
            /\ daily_snapshots[i].inception_pl = daily_snapshots[j].inception_pl

\* C27: for the same trades (those dated on or before the snapshot date)
\* and the same price, the position quantity, average_cost and inception_pl
\* stored for a past date (get_portfolio_positions_for_date) equal those
\* stored through the current-date FIFO ledger (get_portfolio_positions),
\* and inception_pl = market_value + total sold proceeds - total bought cost
\* in both.
C27_SameValuationOnBothPaths ==
    /\ SameValuation
    /\ \A i \in 1..Len(daily_snapshots) : AllTimeInception(daily_snapshots[i])

----------------------------------------------------------------------------
(* C28: run(taskId) on a task that is completed or running *)

\* in this step client c calls run on a task that has the given status
RunsOn(c, status) ==
    /\ req[c].op = "idle"
    /\ req'[c].op = "run"
    /\ req'[c].asked[1] \in DOMAIN scheduled_tasks
    /\ scheduled_tasks[req'[c].asked[1]].status = status

\* client c is inside the snapshot creation of task task_id
Executing(c, task_id) ==
    /\ req[c].runner # ""
    /\ req[c].pc \notin {"idle", "done"}
    /\ req[c].task = task_id

Executors(task_id) == {c \in Clients : Executing(c, task_id)}

AlreadyAnswered(status, answer) ==
    \A c \in Clients :
        RunsOn(c, status) =>
            /\ req'[c].pc = "done"
            /\ req'[c].result = [task_id |-> req'[c].asked[1], status |-> answer]
            /\ Untouched
            /\ next_round' = next_round

\* the call that finds the task pending is the one that executes it
PendingExecutes ==
    \A c \in Clients :
        RunsOn(c, "pending") =>
            /\ req'[c].runner = "run"
            /\ req'[c].pc \notin {"idle", "done"}
            /\ req'[c].task = req'[c].asked[1]
            /\ scheduled_tasks'[req'[c].asked[1]].status = "running"

\* a task is running exactly while one call is executing it
OneExecutor ==
    \A task_id \in DOMAIN scheduled_tasks :
        /\ Cardinality(Executors(task_id)) <= 1
        /\ scheduled_tasks[task_id].status = "running" <=> Executors(task_id) # {}

\* C28: run(taskId) on a completed task returns "already_completed" and on a
\* running task "already_running", in both cases without snapshot creation
\* and without changing any task field; the status check and the switch to
\* running happen in one step, so of the concurrent run(taskId) calls on a
\* pending task exactly one executes the snapshot creation and no task is
\* executed by two calls at the same time.
C28_RunOnceAtATime ==
    [][/\ AlreadyAnswered("completed", "already_completed")
       /\ AlreadyAnswered("running", "already_running")
       /\ PendingExecutes
       /\ OneExecutor']_vars

\* one call is executing task 1 and a second call on task 1 was answered
\* "already_running"
C28_Witness ==
    \E c, d \in Clients :
        /\ Executing(c, 1)
        /\ req[d].op = "run" /\ req[d].pc = "done"
        /\ req[d].result = [task_id |-> 1, status |-> "already_running"]

----------------------------------------------------------------------------
(* C29: the bookkeeping fields of a task *)

Bookkeeping(task) ==
    /\ task.completed_at # None <=> task.status \in {"completed", "failed"}
    /\ task.error_message # None <=> task.status = "failed"

\* C29: in every reachable scheduler state completed_at is set if and only
\* if the status is completed or failed, and error_message is set if and
\* only if the status is failed; a completed task carries no error_message.
C29_BookkeepingMatchesStatus ==
    \A task_id \in DOMAIN scheduled_tasks : Bookkeeping(scheduled_tasks[task_id])

----------------------------------------------------------------------------
(* C30: a batch request and the price cache *)

\* this step is taken by a get_multiple_prices request of client c
BatchStep(c) ==
    /\ req'[c] # req[c]
    /\ req[c].op = "batch" \/ req'[c].op = "batch"

\* every quote a finished batch holds for a fetched symbol is of its own round
OwnRound(r) ==
    (r.op = "batch" /\ r.pc = "done") =>
        \A s \in DOMAIN r.all_prices \ {"CASH_USD"} :
            r.all_prices[s] # None => r.all_prices[s].round = r.round

\* client d holds the answer of a batch that fetched a quote for symbol
BatchFetched(d, symbol) ==
    /\ req[d].op = "batch" /\ req[d].pc = "done"
    /\ symbol \in DOMAIN req[d].all_prices
    /\ req[d].all_prices[symbol] # None

\* in this step client c calls get(symbol) without force_refresh
CallsGet(c, symbol) ==
    /\ req[c].op = "idle"
    /\ req'[c].op = "get"
    /\ req'[c].symbol = symbol
    /\ ~req'[c].force_fresh

StaleAfterBatch ==
    \A c, d \in Clients, symbol \in Symbols :
        (CallsGet(c, symbol) /\ BatchFetched(d, symbol) /\ _is_cache_valid(cache, symbol, now)) =>
            /\ req'[c].pc = "done"
            /\ req'[c].result = cache[symbol].data
            /\ req'[c].result # req[d].all_prices[symbol]
            /\ cache' = cache
            /\ next_round' = next_round

\* C30: get_multiple_prices neither reads nor writes the price cache: the
\* cache is the same before and after every step of the call and the quotes
\* it returns are those of its own fetch round, so a get(symbol) without
\* force_refresh issued after a batch, while an older cache entry of the
\* symbol is within its time-to-live, returns that older cached quote and
\* not the quote the batch fetched.
C30_BatchBypassesCache ==
    [][/\ \A c \in Clients : BatchStep(c) => cache' = cache /\ OwnRound(req'[c])
       /\ StaleAfterBatch]_vars

\* a batch has fetched a newer AAPL quote and a later get("AAPL") was
\* answered with the older quote the cache held
C30_Witness ==
    \E c, d \in Clients :
        /\ BatchFetched(d, "AAPL")
        /\ req[c].op = "get" /\ req[c].pc = "done" /\ req[c].symbol = "AAPL"
        /\ ~req[c].force_fresh
        /\ req[c].cached_at_call # None
        /\ req[c].result = req[c].cached_at_call.data
        /\ req[c].result.round < req[d].all_prices["AAPL"].round
        /\ req[c].call_time > req[d].call_time
        /\ cache["AAPL"] = req[c].cached_at_call

====
